---- MODULE Spec2Model ----
(***************************************************************************)
(* A model of vaultic's secret-state engine: the environment inheritance   *)
(* resolver, the recipient key store, the self-update flow and the         *)
(* commands that move secrets between memory and the filesystem.           *)
(*                                                                         *)
(* Every component has its own group of variables and its own              *)
(* specification (SpecChain, SpecKeys, SpecUpdate, SpecFs); a component's  *)
(* specification keeps the other groups at their idle values.              *)
(***************************************************************************)
EXTENDS Integers, Sequences, FiniteSets, TLC

VARIABLES
    \* ---- AppConfig (config/app_config.rs)
    environments,   \* config.environments: name -> [file, inherits] (Options)
    \* ---- EnvResolver::build_chain (core/services/env_resolver.rs)
    name,           \* the requested environment
    chain,          \* Vec<String> accumulated by the walk
    visited,        \* HashSet<String>
    current,        \* the environment the walk is at
    bcResult,       \* Pending, or the Result build_chain returned
    \* ---- FileKeyStore (adapters/key_stores/file_key_store.rs)
    recipientsFile, \* the file at self.path: None (absent) or Some(its characters)
    lastCall,       \* the last KeyStore call: what it was given, saw and returned
    \* ---- `vaultic update` (cli/commands/update.rs)
    updPhase,       \* where update::execute is
    info,           \* Option<UpdateInfo> returned by fetch_update_info
    binary_data,    \* the downloaded platform binary
    checksums_data, \* the downloaded SHA256SUMS.txt
    signature_data, \* the downloaded SHA256SUMS.txt.minisig
    installedBinary,\* the running executable on disk
    tmpFile,        \* temp_dir()/asset_name: None or Some(content)
    updResult,      \* Pending, or the Result update::execute returned
    events,         \* the verification and install steps run so far, in order
    keyDecodes,     \* whether this build's MINISIGN_PUBLIC_KEY decodes: the source
                    \* carries a placeholder that a release build replaces
    \* ---- the commands that read and write secrets (cli/commands)
    disk,           \* path -> [data, writer] for the files that exist
    auditEnabled,   \* config.audit.enabled (true when the section is absent)
    cmd,            \* the command running, or the last one run
    pc,             \* where that command is; "done" when it has returned
    cipher,         \* its --cipher
    pending,        \* the environments it has still to process
    plaintext,      \* Option: the decrypted bytes it holds in memory
    fsResult,       \* Pending, or the Result the command returned
    writes,         \* the file writes the command has made, in order
    runs,           \* commands started so far
    \* ---- EnvResolver::resolve (core/services/env_resolver.rs)
    layerFiles,     \* files: name -> lines of the layers that have a SecretFile
    rsResult,        \* Pending, or the Result resolve returned
    \* ---- EnvResolver::merge as a function of two SecretFiles
    mergeBase,      \* base.lines
    mergeOverlay,   \* overlay.lines
    mergeResult,     \* Pending, or Ok(the lines merge returned)
    \* ---- JsonAuditLogger: the log file and the calls made on it
    logFile,        \* the file at log_path: None or Some(its bytes)
    priorLog,       \* the log file before the first call
    logged,         \* the entries of the log_event calls that returned Ok
    auditCall,       \* the last call on the logger and what it returned
    \* ---- One vaultic command and its audit call
    invoked,        \* the command line
    stage,          \* where the command is
    targets,        \* the environments encrypt --all goes through
    envsLeft,       \* the environments encrypt --all has still to rewrite
    changed,        \* the files the command has written
    toLog,          \* the entry handed to log_audit, None when there is none
    auditLines,     \* the entries appended to the audit log
    warnings,       \* the calls of output::warning about the audit log
    workFailed,     \* TRUE when a step of the command itself returned Err
    exitResult,     \* what execute returned
    enabled,        \* config.audit.enabled
    writable,        \* FALSE when log_event cannot open or write the log
    \* ---- CipherBackend::decrypt of the age and gpg backends
    decBackend,     \* the backend: age or gpg
    decKeys,        \* the identity file or keyring of the backend
    decInput,       \* the bytes handed to decrypt
    decResult,       \* Pending, or what decrypt returned
    \* ---- context::validate_env_name and validate_simple_filename
    vnInput,        \* the string handed to the validators
    vnResult,       \* Pending, or what validate_env_name returned
    vfResult,        \* Pending, or what validate_simple_filename returned
    \* ---- main: the --env values, their validation and the dispatch
    argv,           \* the parsed command line: the command and the --env values
    mainStage,      \* where main is
    envIndex,       \* the --env values main has validated
    builtFrom,      \* the --env values a command has built a path from
    exitCode,        \* None while the process runs, Some(status) after
    \* ---- DotenvParser: parse and serialize
    dotenvText,     \* the content handed to parse
    dotenvParsed,   \* Pending, or what parse returned
    dotenvOut,       \* Pending, or what serialize returned for the parsed file
    \* ---- CheckService::check
    checkLocal,     \* local.lines
    checkTemplate,  \* template.lines
    checkResult,     \* Pending, or the CheckResult check returned
    \* ---- TemplateResolver::resolve_global
    tplConfig,      \* config.vaultic.template: None or Some(path)
    tplExisting,    \* the files that exist in the project root
    tplResult,       \* Pending, or what resolve_global returned
    \* ---- verifier::verify_sha256 on a download that is changed afterwards
    verData,        \* the binary handed to verify_sha256
    verText,        \* the text of SHA256SUMS.txt handed to verify_sha256
    verFirst,       \* Pending, or the result of the first verification
    verTamper,      \* what was changed after the first verification
    verSecond,       \* Idle until something changes, then Pending, then the second result
    \* ---- two vaultic processes in FileKeyStore::add on one recipients.txt
    storeFile,      \* the shared recipients.txt: None or Some(content)
    addKey,         \* per process, the identity it adds
    addPc,          \* per process: start, read (list done), truncated (file created), done
    addSeen,        \* per process, the entries its list() returned
    addResult,      \* per process: Pending, or what add returned
    overlapped,     \* history: some list() ran while the other process was inside add
    lastWriter,      \* history: the process whose write_all ran last, 0 if none
    \* ---- two vaultic processes in JsonAuditLogger::log_event on one audit log
    sharedLog,      \* the shared audit log: None or Some(bytes)
    logPrior,       \* history: the log before the two calls
    logEntryOf,     \* per process, the entry it logs
    logPc,          \* per process: start, opened, line (entry written, line feed not yet), done
    logResult,      \* per process: Pending, or what log_event returned
    logQuery        \* Idle, or the result of query(None, None) after both calls

cfgVars   == <<environments>>
chainVars == <<name, chain, visited, current, bcResult>>
keyVars   == <<recipientsFile, lastCall>>
updVars   == <<updPhase, info, binary_data, checksums_data, signature_data,
               installedBinary, tmpFile, updResult, events, keyDecodes>>
fsVars    == <<disk, auditEnabled, cmd, pc, cipher, pending, plaintext, fsResult,
               writes, runs>>
resolveVars == <<layerFiles, rsResult>>
mergeVars == <<mergeBase, mergeOverlay, mergeResult>>
auditVars == <<logFile, priorLog, logged, auditCall>>
cmdVars   == <<invoked, stage, targets, envsLeft, changed, toLog, auditLines, warnings, workFailed, exitResult, enabled, writable>>
decVars   == <<decBackend, decKeys, decInput, decResult>>
validateVars == <<vnInput, vnResult, vfResult>>
mainVars  == <<argv, mainStage, envIndex, builtFrom, exitCode>>
dotenvVars == <<dotenvText, dotenvParsed, dotenvOut>>
checkVars == <<checkLocal, checkTemplate, checkResult>>
tplVars   == <<tplConfig, tplExisting, tplResult>>
verVars   == <<verData, verText, verFirst, verTamper, verSecond>>
raceVars  == <<storeFile, addKey, addPc, addSeen, addResult, overlapped, lastWriter>>
appendVars == <<sharedLog, logPrior, logEntryOf, logPc, logResult, logQuery>>

(***************************************************************************)
(* Option<T>: None is the empty sequence, Some(v) is <<v>>.                *)
(***************************************************************************)
None == <<>>
Some(v) == <<v>>
IsSome(o) == Len(o) = 1
Unwrap(o) == o[1]

RECURSIVE Reverse(_)
Reverse(s) == IF s = <<>> THEN <<>> ELSE Append(Reverse(Tail(s)), Head(s))

\* [String]::join(sep)
RECURSIVE Join(_, _)
Join(s, sep) ==
    IF s = <<>> THEN ""
    ELSE IF Len(s) = 1 THEN s[1]
    ELSE s[1] \o sep \o Join(Tail(s), sep)

Range(s) == {s[i] : i \in DOMAIN s}

(***************************************************************************)
(* Bounds of the resolver model.                                           *)
(***************************************************************************)
MaxEnvs == 3
NamePool == <<"a", "b", "c", "d", "e">>
EnvNames == {NamePool[i] : i \in 1..MaxEnvs}
\* A name no config defines (an inherits link may point to it).
Undefined == "undefined"

EnvEntry(file, inherits) == [file |-> file, inherits |-> inherits]

\* Every environments map over EnvNames whose inherits links are arbitrary:
\* roots, chains, self-loops, cycles, links to undefined names.
ChainConfigs ==
    UNION {[D -> {EnvEntry(None, i) : i \in {None} \cup {Some(n) : n \in EnvNames \cup {Undefined}}}]
           : D \in SUBSET EnvNames}

(***************************************************************************)
(* EnvResolver::build_chain, one action per way a loop iteration ends.     *)
(***************************************************************************)
\* Result<T>: a call still running, Ok(value) or Err(VaulticError).
Pending == [status |-> "pending"]
Idle == [status |-> "idle"]
Ok(v) == [status |-> "ok", value |-> v]
Err(kind, payload) == [status |-> "err", kind |-> kind, payload |-> payload]
IsOk(r) == r.status = "ok"
IsErr(r) == r.status = "err"
IsErrOf(r, kind) == r.status = "err" /\ r.kind = kind

BuildChainInit ==
    /\ chain = <<>>
    /\ visited = {}
    /\ current = name
    /\ bcResult = Pending

\* A walk that, on meeting a visited name, goes round again instead of returning.
CycleDetectedSpin ==
    /\ bcResult = Pending
    /\ current \in visited
    /\ UNCHANGED <<name, chain, visited, current, bcResult>>

\* env_resolver.rs:64-70
CycleDetected ==
    /\ bcResult = Pending
    /\ current \in visited
    /\ chain' = Append(chain, current)
    /\ bcResult' = Err("CircularInheritance", Join(Reverse(chain'), " -> "))
    /\ UNCHANGED <<name, visited, current>>

\* env_resolver.rs:72-76
EntryMissing ==
    /\ bcResult = Pending
    /\ current \notin visited
    /\ current \notin DOMAIN environments
    /\ bcResult' = Err("EnvironmentNotFound", [name |-> current])
    /\ UNCHANGED <<name, chain, visited, current>>

\* env_resolver.rs:78-82
VisitParent ==
    /\ bcResult = Pending
    /\ current \notin visited
    /\ current \in DOMAIN environments
    /\ IsSome(environments[current].inherits)
    /\ visited' = visited \cup {current}
    /\ chain' = Append(chain, current)
    /\ current' = Unwrap(environments[current].inherits)
    /\ UNCHANGED <<name, bcResult>>

\* A walk that returns the path leaf-first, without the final reverse.
VisitRootNoReverse ==
    /\ bcResult = Pending
    /\ current \notin visited
    /\ current \in DOMAIN environments
    /\ ~IsSome(environments[current].inherits)
    /\ visited' = visited \cup {current}
    /\ chain' = Append(chain, current)
    /\ bcResult' = Ok(chain')
    /\ UNCHANGED <<name, current>>

\* env_resolver.rs:78-89
VisitRoot ==
    /\ bcResult = Pending
    /\ current \notin visited
    /\ current \in DOMAIN environments
    /\ ~IsSome(environments[current].inherits)
    /\ visited' = visited \cup {current}
    /\ chain' = Reverse(Append(chain, current))
    /\ bcResult' = Ok(chain')
    /\ UNCHANGED <<name, current>>

BuildChainStep == CycleDetected \/ EntryMissing \/ VisitParent \/ VisitRoot

ChainIdle ==
    /\ name = ""
    /\ chain = <<>>
    /\ visited = {}
    /\ current = ""
    /\ bcResult = Idle


(***************************************************************************)
(* Text.  A string whose characters matter is a sequence of one-character  *)
(* strings; a file's content is such a sequence, newlines included.        *)
(***************************************************************************)
IsWhitespace(c) == c \in {" ", "\t", "\n", "\r"}

RECURSIVE TrimStart(_)
TrimStart(s) ==
    IF s # <<>> /\ IsWhitespace(Head(s)) THEN TrimStart(Tail(s)) ELSE s

RECURSIVE TrimEnd(_)
TrimEnd(s) ==
    IF s # <<>> /\ IsWhitespace(s[Len(s)]) THEN TrimEnd(SubSeq(s, 1, Len(s) - 1)) ELSE s

\* str::trim
Trim(s) == TrimEnd(TrimStart(s))

\* The index of the first c in s, 0 when there is none.
IndexOf(s, c) ==
    IF \E i \in DOMAIN s : s[i] = c
    THEN CHOOSE i \in DOMAIN s : s[i] = c /\ \A j \in 1..(i - 1) : s[j] # c
    ELSE 0

Contains(s, c) == IndexOf(s, c) # 0

StartsWith(s, prefix) ==
    Len(s) >= Len(prefix) /\ SubSeq(s, 1, Len(prefix)) = prefix

\* The pieces of s between occurrences of the character sep.
RECURSIVE Split(_, _)
Split(s, sep) ==
    LET i == IndexOf(s, sep) IN
    IF i = 0 THEN <<s>>
    ELSE <<SubSeq(s, 1, i - 1)>> \o Split(SubSeq(s, i + 1, Len(s)), sep)

StripCr(l) == IF l # <<>> /\ l[Len(l)] = "\r" THEN SubSeq(l, 1, Len(l) - 1) ELSE l

\* str::lines: lines end at "\n" or "\r\n"; a final line ending is optional.
Lines(s) ==
    LET pieces == Split(s, "\n")
        kept == IF pieces[Len(pieces)] = <<>>
                THEN SubSeq(pieces, 1, Len(pieces) - 1) ELSE pieces
    IN [i \in DOMAIN kept |-> StripCr(kept[i])]

\* [String]::join with a separator of characters.
RECURSIVE JoinChars(_, _)
JoinChars(ss, sep) ==
    IF ss = <<>> THEN <<>>
    ELSE IF Len(ss) = 1 THEN ss[1]
    ELSE ss[1] \o sep \o JoinChars(Tail(ss), sep)

(***************************************************************************)
(* KeyIdentity and the recipients file.                                    *)
(***************************************************************************)
KeyIdentity(public_key, label, added_at) ==
    [public_key |-> public_key, label |-> label, added_at |-> added_at]

\* FileKeyStore::parse_line
parse_line(line) ==
    LET trimmed == Trim(line)
        i == IndexOf(trimmed, "#")
        key == IF i = 0 THEN trimmed ELSE Trim(SubSeq(trimmed, 1, i - 1))
        label == IF i = 0 THEN None
                 ELSE Some(Trim(SubSeq(trimmed, i + 1, Len(trimmed))))
    IN IF trimmed = <<>> \/ Head(trimmed) = "#" THEN None
       ELSE IF key = <<>> THEN None
       ELSE Some(KeyIdentity(key, label, None))

serialize_identity(ki) ==
    IF IsSome(ki.label)
    THEN ki.public_key \o <<" ", "#", " ">> \o Unwrap(ki.label)
    ELSE ki.public_key

\* FileKeyStore::serialize
serialize(identities) ==
    JoinChars([i \in DOMAIN identities |-> serialize_identity(identities[i])], <<"\n">>)
        \o <<"\n">>

\* lines.filter_map(parse_line).collect(): an Option is a sequence of 0 or 1.
RECURSIVE parse_lines(_)
parse_lines(lines) ==
    IF lines = <<>> THEN <<>>
    ELSE parse_line(Head(lines)) \o parse_lines(Tail(lines))

\* FileKeyStore::list on a file
list(file) ==
    IF ~IsSome(file) THEN <<>>
    ELSE parse_lines(Lines(Unwrap(file)))

HasKey(identities, public_key) ==
    \E i \in DOMAIN identities : identities[i].public_key = public_key

Without(identities, public_key) ==
    SelectSeq(identities, LAMBDA ki : ki.public_key # public_key)

Call(op, arg, result, before, fileBefore) ==
    [op |-> op, arg |-> arg, result |-> result, before |-> before,
     fileBefore |-> fileBefore]

NoCall == Call("none", <<>>, Idle, <<>>, None)

\* Bound of the key-store model: the entries a store is grown to.
MaxStore == 2

\* FileKeyStore::add
add(identity) ==
    LET existing == list(recipientsFile) IN
    IF HasKey(existing, identity.public_key)
    THEN /\ lastCall' = Call("add", identity,
                             Err("KeyAlreadyExists", identity.public_key),
                             existing, recipientsFile)
         /\ UNCHANGED recipientsFile
    ELSE /\ Len(existing) < MaxStore
         /\ recipientsFile' = Some(serialize(Append(existing, identity)))
         /\ lastCall' = Call("add", identity, Ok(<<>>), existing, recipientsFile)

\* A remove that matches the stored keys by prefix instead of by equality.
remove_by_prefix(public_key) ==
    LET existing == list(recipientsFile) IN
    IF ~HasKey(existing, public_key)
    THEN /\ lastCall' = Call("remove", public_key, Err("KeyNotFound", public_key),
                             existing, recipientsFile)
         /\ UNCHANGED recipientsFile
    ELSE /\ recipientsFile' =
              Some(serialize(SelectSeq(existing,
                       LAMBDA ki : ~StartsWith(ki.public_key, public_key))))
         /\ lastCall' = Call("remove", public_key, Ok(<<>>), existing, recipientsFile)

\* FileKeyStore::remove
remove(public_key) ==
    LET existing == list(recipientsFile) IN
    IF ~HasKey(existing, public_key)
    THEN /\ lastCall' = Call("remove", public_key, Err("KeyNotFound", public_key),
                             existing, recipientsFile)
         /\ UNCHANGED recipientsFile
    ELSE /\ recipientsFile' = Some(serialize(Without(existing, public_key)))
         /\ lastCall' = Call("remove", public_key, Ok(<<>>), existing, recipientsFile)

(***************************************************************************)
(* The CLI's validator of recipient keys (cli/commands/keys.rs).           *)
(***************************************************************************)
IsHexDigit(c) ==
    c \in {"0", "1", "2", "3", "4", "5", "6", "7", "8", "9",
           "a", "b", "c", "d", "e", "f", "A", "B", "C", "D", "E", "F"}

MinFingerprintLen == 16

\* The strings age::x25519::Recipient parses, among those the model uses.
AgeRecipients == {<<"a", "g", "e", "1", "q">>}

\* validate_recipient_key returns Ok
validate_recipient_key(identity) ==
    IF StartsWith(identity, <<"a", "g", "e", "1">>) THEN identity \in AgeRecipients
    ELSE IF Contains(identity, "@") THEN TRUE
    ELSE Len(identity) >= MinFingerprintLen /\ \A i \in DOMAIN identity : IsHexDigit(identity[i])

(***************************************************************************)
(* The inputs of the key-store model.                                      *)
(***************************************************************************)
KeyEmail       == <<"a", "@", "b">>
KeyEmailPrefix == <<"a", "@">>
KeyEmailHash   == <<"a", "@", "b", "#", "c">>
KeyEmailPadded == <<" ", "a", "@", "b">>
KeyAge         == <<"a", "g", "e", "1", "q">>
KeyFingerprint == <<"0", "1", "2", "3", "4", "5", "6", "7",
                    "8", "9", "A", "B", "C", "D", "E", "F">>
KeyShort       == <<"a", "b">>

PublicKeys ==
    {KeyEmail, KeyEmailPrefix, KeyEmailHash, KeyEmailPadded, KeyAge,
     KeyFingerprint, KeyShort}

\* A label that contains the key KeyEmailPrefix.
Labels == {None, Some(<<"a", "@">>)}

Now == "now"

Identities ==
    {KeyIdentity(k, l, Some(Now)) : k \in PublicKeys, l \in Labels}

\* Recipients files the program did not write itself: absent, empty (init),
\* and one edited by hand with a comment, a blank line and a labelled key.
HandWritten ==
    <<"#", " ", "t", "\n", "\n", "a", "@", "b", " ", "#", "a", "@", "\r", "\n", "a", "@">>

InitialFiles == {None, Some(<<>>), Some(HandWritten)}

KeysInit ==
    /\ recipientsFile \in InitialFiles
    /\ lastCall = NoCall

KeysIdle ==
    /\ recipientsFile = None
    /\ lastCall = NoCall

Add == \E identity \in Identities : add(identity)

Remove == \E public_key \in PublicKeys : remove(public_key)


(***************************************************************************)
(* The release verifier (adapters/updater/verifier.rs).                    *)
(***************************************************************************)
\* The index at which the two-space separator first starts in s, 0 if none.
IndexOfTwoSpaces(s) ==
    LET hits == {i \in 1..(Len(s) - 1) : s[i] = " " /\ s[i + 1] = " "} IN
    IF hits = {} THEN 0 ELSE CHOOSE i \in hits : \A j \in hits : i <= j

\* The binaries the model downloads, and SHA-256 on them: distinct binaries
\* have distinct digests.
Binaries == {"release-binary", "other-binary"}
sha256_hex(data) ==
    IF data = "release-binary" THEN <<"a", "1">> ELSE <<"b", "2">>

\* One line of SHA256SUMS.txt: line.splitn(2, "  "), both parts trimmed.
checksum_line(line) ==
    LET i == IndexOfTwoSpaces(line) IN
    IF i = 0 THEN None
    ELSE Some([hash |-> Trim(SubSeq(line, 1, i - 1)),
               name |-> Trim(SubSeq(line, i + 2, Len(line)))])

\* lines().find_map(..): the hash of the first line that names the asset.
RECURSIVE expected_hash(_, _)
expected_hash(lines, asset_name) ==
    IF lines = <<>> THEN None
    ELSE LET l == checksum_line(Head(lines)) IN
         IF IsSome(l) /\ Unwrap(l).name = asset_name THEN Some(Unwrap(l).hash)
         ELSE expected_hash(Tail(lines), asset_name)

\* A verification that is content with finding the asset's line.
verify_sha256_found(data, asset_name, checksums_content) ==
    LET expected == expected_hash(Lines(checksums_content), asset_name)
    IN IF ~IsSome(expected) THEN Err("UpdateVerificationFailed", "Asset not found")
       ELSE Ok(<<>>)

\* verifier::verify_sha256
verify_sha256(data, asset_name, checksums_content) ==
    LET computed == sha256_hex(data)
        expected == expected_hash(Lines(checksums_content), asset_name)
    IN IF ~IsSome(expected) THEN Err("UpdateVerificationFailed", "Asset not found")
       ELSE IF computed # Unwrap(expected)
            THEN Err("UpdateVerificationFailed", "SHA256 mismatch")
            ELSE Ok(<<>>)

\* A minisign signature file: undecodable, or a signature some key made over
\* some content.
Signature(by, over) == [decodes |-> TRUE, by |-> by, over |-> over]
Undecodable == [decodes |-> FALSE]

\* verifier::verify_signature
verify_signature(checksums_content, signature_content) ==
    IF ~keyDecodes
    THEN Err("UpdateVerificationFailed", "Invalid embedded public key")
    ELSE IF ~signature_content.decodes
    THEN Err("UpdateVerificationFailed", "Invalid signature file")
    ELSE IF ~(signature_content.by = "release-key"
              /\ signature_content.over = checksums_content)
    THEN Err("UpdateVerificationFailed", "Invalid signature")
    ELSE Ok(<<>>)

(***************************************************************************)
(* What the network can hand to `vaultic update`.                          *)
(***************************************************************************)
PlatformAsset == <<"v">>
ChecksumsName == "SHA256SUMS.txt"
SignatureName == "SHA256SUMS.txt.minisig"

Manifests ==
    { <<"a", "1", " ", " ", "v", "\n">>,                                \* names the release binary
      <<"b", "2", " ", " ", "v", "\n">>,                                \* names the other binary
      <<"a", "1", " ", " ", "w", "\n">>,                                \* no line for the asset
      <<"b", "2", " ", " ", "w", "\n", "a", "1", " ", " ", "v", "\n">> }

Signatures ==
    {Undecodable} \cup {Signature(k, m) : k \in {"release-key", "other-key"}, m \in Manifests}

\* A GitHub release as fetch_update_info sees it.
Releases ==
    [newer : BOOLEAN, assets : SUBSET {"binary", ChecksumsName, SignatureName}]

OldBinary == "installed-binary"

(***************************************************************************)
(* update::execute, step by step.                                          *)
(***************************************************************************)
UpdateInit ==
    /\ updPhase = "start"
    /\ info = None
    /\ binary_data = None
    /\ checksums_data = None
    /\ signature_data = None
    /\ installedBinary = OldBinary
    /\ tmpFile = None
    /\ updResult = Pending
    /\ events = <<>>
    /\ keyDecodes \in BOOLEAN

UpdateIdle ==
    /\ updPhase = "idle"
    /\ info = None
    /\ binary_data = None
    /\ checksums_data = None
    /\ signature_data = None
    /\ installedBinary = OldBinary
    /\ tmpFile = None
    /\ updResult = Idle
    /\ events = <<>>
    /\ keyDecodes = FALSE

UpdateFails(step, err) ==
    /\ updPhase' = "failed"
    /\ updResult' = err
    /\ events' = Append(events, <<step, "failed">>)

\* github_updater::fetch_update_info on the platform and release it meets
fetch_update_info(platformAsset, apiOk, release) ==
    IF ~IsSome(platformAsset) THEN Err("UnsupportedPlatform", <<>>)
    ELSE IF ~apiOk THEN Err("UpdateCheckFailed", "GitHub API")
    ELSE IF ~release.newer THEN Ok(None)
    ELSE IF "binary" \notin release.assets THEN Err("UpdateCheckFailed", "No binary")
    ELSE IF ChecksumsName \notin release.assets
    THEN Err("UpdateCheckFailed", "missing SHA256SUMS.txt")
    ELSE IF SignatureName \notin release.assets
    THEN Err("UpdateCheckFailed", "missing SHA256SUMS.txt.minisig")
    ELSE Ok(Some([asset_name |-> Unwrap(platformAsset)]))

\* update.rs:15-33
FetchUpdateInfo ==
    /\ updPhase = "start"
    /\ \E platformAsset \in {None, Some(PlatformAsset)}, apiOk \in BOOLEAN,
          release \in Releases :
         LET r == fetch_update_info(platformAsset, apiOk, release) IN
         IF IsErr(r)
         THEN /\ UpdateFails("fetch_update_info", r)
              /\ UNCHANGED info
         ELSE IF ~IsSome(r.value)
         THEN /\ updPhase' = "up-to-date"
              /\ updResult' = Ok(<<>>)
              /\ UNCHANGED <<info, events>>
         ELSE /\ updPhase' = "downloading-binary"
              /\ info' = r.value
              /\ UNCHANGED <<updResult, events>>
    /\ UNCHANGED <<binary_data, checksums_data, signature_data, installedBinary,
                   tmpFile, keyDecodes>>

\* update.rs:37
DownloadBinary ==
    /\ updPhase = "downloading-binary"
    /\ \/ /\ UpdateFails("download_bytes(asset_url)", Err("UpdateFailed", "Download failed"))
          /\ UNCHANGED binary_data
       \/ /\ binary_data' \in {Some(b) : b \in Binaries}
          /\ updPhase' = "downloading-checksums"
          /\ UNCHANGED <<updResult, events>>
    /\ UNCHANGED <<info, checksums_data, signature_data, installedBinary, tmpFile,
                   keyDecodes>>

\* update.rs:41
DownloadChecksums ==
    /\ updPhase = "downloading-checksums"
    /\ \/ /\ UpdateFails("download_bytes(checksums_url)", Err("UpdateFailed", "Download failed"))
          /\ UNCHANGED checksums_data
       \/ /\ checksums_data' \in {Some(m) : m \in Manifests}
          /\ updPhase' = "downloading-signature"
          /\ UNCHANGED <<updResult, events>>
    /\ UNCHANGED <<info, binary_data, signature_data, installedBinary, tmpFile,
                   keyDecodes>>

\* update.rs:42
DownloadSignature ==
    /\ updPhase = "downloading-signature"
    /\ \/ /\ UpdateFails("download_bytes(signature_url)", Err("UpdateFailed", "Download failed"))
          /\ UNCHANGED signature_data
       \/ /\ signature_data' \in {Some(g) : g \in Signatures}
          /\ updPhase' = "verifying-signature"
          /\ UNCHANGED <<updResult, events>>
    /\ UNCHANGED <<info, binary_data, checksums_data, installedBinary, tmpFile,
                   keyDecodes>>

\* An update that reports a bad signature but carries on to the next step.
VerifySignatureIgnored ==
    /\ updPhase = "verifying-signature"
    /\ LET r == verify_signature(Unwrap(checksums_data), Unwrap(signature_data)) IN
       /\ updPhase' = "verifying-hash"
       /\ events' = Append(events, <<"verify_signature", IF IsErr(r) THEN "failed" ELSE "ok">>)
       /\ UNCHANGED updResult
    /\ UNCHANGED <<info, binary_data, checksums_data, signature_data, installedBinary,
                   tmpFile, keyDecodes>>

\* update.rs:45-48
VerifySignature ==
    /\ updPhase = "verifying-signature"
    /\ LET r == verify_signature(Unwrap(checksums_data), Unwrap(signature_data)) IN
       IF IsErr(r)
       THEN UpdateFails("verify_signature", r)
       ELSE /\ updPhase' = "verifying-hash"
            /\ events' = Append(events, <<"verify_signature", "ok">>)
            /\ UNCHANGED updResult
    /\ UNCHANGED <<info, binary_data, checksums_data, signature_data, installedBinary,
                   tmpFile, keyDecodes>>

\* An update that checks the hash as soon as the downloads are in, before the
\* signature of the manifest is verified.
VerifySha256First ==
    /\ \/ updPhase = "verifying-signature" /\ events = <<>>
       \/ updPhase = "verifying-hash"
    /\ LET r == verify_sha256(Unwrap(binary_data), Unwrap(info).asset_name,
                              Unwrap(checksums_data)) IN
       IF IsErr(r)
       THEN UpdateFails("verify_sha256", r)
       ELSE /\ updPhase' = IF updPhase = "verifying-hash" THEN "installing" ELSE updPhase
            /\ events' = Append(events, <<"verify_sha256", "ok">>)
            /\ UNCHANGED updResult
    /\ UNCHANGED <<info, binary_data, checksums_data, signature_data, installedBinary,
                   tmpFile, keyDecodes>>

\* update.rs:50-54
VerifySha256 ==
    /\ updPhase = "verifying-hash"
    /\ LET r == verify_sha256(Unwrap(binary_data), Unwrap(info).asset_name,
                              Unwrap(checksums_data)) IN
       IF IsErr(r)
       THEN UpdateFails("verify_sha256", r)
       ELSE /\ updPhase' = "installing"
            /\ events' = Append(events, <<"verify_sha256", "ok">>)
            /\ UNCHANGED updResult
    /\ UNCHANGED <<info, binary_data, checksums_data, signature_data, installedBinary,
                   tmpFile, keyDecodes>>

\* update.rs:58-63
WriteTempFile ==
    /\ updPhase = "installing"
    /\ \/ /\ UpdateFails("write temp file", Err("UpdateFailed", "Failed to write temp file"))
          /\ UNCHANGED tmpFile
       \/ /\ tmpFile' = binary_data
          /\ updPhase' = "replacing"
          /\ UNCHANGED <<updResult, events>>
    /\ UNCHANGED <<info, binary_data, checksums_data, signature_data, installedBinary,
                   keyDecodes>>

\* update.rs:64-75.  A failed self_replace may or may not have touched the
\* executable ("Your current installation may be intact").
SelfReplace ==
    /\ updPhase = "replacing"
    /\ \/ /\ UpdateFails("self_replace", Err("UpdateFailed", "Failed to replace binary"))
          /\ installedBinary' \in {installedBinary, "partly-replaced"}
          /\ UNCHANGED tmpFile
       \/ /\ installedBinary' = Unwrap(tmpFile)
          /\ tmpFile' \in {None, tmpFile}
          /\ events' = Append(events, <<"self_replace", "ok">>)
          /\ updPhase' = "done"
          /\ updResult' = Ok(<<>>)
    /\ UNCHANGED <<info, binary_data, checksums_data, signature_data, keyDecodes>>

(***************************************************************************)
(* Bytes in memory and on disk.  Plaintext carries, beside its dotenv      *)
(* lines, whether it was obtained by decrypting a ciphertext.  The dotenv  *)
(* text format itself is not modelled: parse and serialize work on lines.  *)
(***************************************************************************)
Entry(key, value) == [kind |-> "entry", key |-> key, value |-> value]
Comment(text) == [kind |-> "comment", text |-> text]

Plain(lines, decrypted) == [kind |-> "plain", lines |-> lines, decrypted |-> decrypted]
Ciphertext(lines, recipients) == [kind |-> "cipher", of |-> lines, recipients |-> recipients]
Junk == [kind |-> "junk"]
AuditLog(entries) == [kind |-> "log", entries |-> entries]

\* A file: its bytes and the function whose fs::write put them there.
File(data, writer) == [data |-> data, writer |-> writer]

IsDecrypted(data) == data.kind = "plain" /\ data.decrypted
HoldsDecrypted(file) == IsDecrypted(file.data)

\* The public key of the identity in the local identity file.
Identity == KeyAge

\* AgeBackend::encrypt
age_encrypt(bytes, recipients) ==
    IF recipients = <<>> THEN Err("EncryptionFailed", "No recipients provided")
    ELSE IF \E i \in DOMAIN recipients : recipients[i].public_key \notin AgeRecipients
    THEN Err("EncryptionFailed", "Invalid recipient key")
    ELSE Ok(Ciphertext(bytes.lines,
                       {recipients[i].public_key : i \in DOMAIN recipients}))

\* AgeBackend::decrypt
age_decrypt(ciphertext) ==
    IF ciphertext.kind # "cipher" THEN Err("EncryptionFailed", "Invalid encrypted file")
    ELSE IF Identity \notin ciphertext.recipients THEN Err("DecryptionNoKey", <<>>)
    ELSE Ok(Plain(ciphertext.of, TRUE))

UnknownCipher == Err("InvalidConfig", "Unknown cipher backend")

\* The --cipher values the model passes: the age backend and a name no
\* backend has.
Ciphers == {"age", "rot13"}

(***************************************************************************)
(* Paths, relative to .vaultic/ except for the working tree's .env.        *)
(***************************************************************************)
DotEnv == ".env"
AuditLogPath == "audit.log"

\* AppConfig::env_file_name
env_file_name(n) ==
    IF n \in DOMAIN environments /\ IsSome(environments[n].file)
    THEN Unwrap(environments[n].file)
    ELSE n \o ".env"

\* encrypt_all's enc_path
EncPath(n) == env_file_name(n) \o ".enc"

\* The {name}.env.enc of load_env_files, decrypt and encrypt.
EnvEncPath(n) == n \o ".env.enc"

\* envs.sort() on the names of the pool
SortedNames(S) == SelectSeq(NamePool, LAMBDA n : n \in S)

WriteFile(d, path, file) ==
    [p \in DOMAIN d \cup {path} |-> IF p = path THEN file ELSE d[p]]

WriteRecord(path, data, env) == [path |-> path, data |-> data, env |-> env]

\* JsonAuditLogger::log_event appends one line
AppendedLog(d, entry) ==
    LET old == IF AuditLogPath \in DOMAIN d /\ d[AuditLogPath].data.kind = "log"
               THEN d[AuditLogPath].data.entries ELSE <<>>
    IN AuditLog(Append(old, entry))

AuditEntry(action, files, state_hash) ==
    [action |-> action, files |-> files, state_hash |-> state_hash]

\* audit_helpers::log_audit_with_hash: the disk after it
log_audit_with_hash(d, entry) ==
    IF ~auditEnabled THEN d
    ELSE WriteFile(d, AuditLogPath, File(AppendedLog(d, entry), "log_event"))

\* What log_audit_with_hash adds to the writes of a command
AuditWrites(d, entry, env) ==
    IF ~auditEnabled THEN <<>>
    ELSE <<WriteRecord(AuditLogPath, AppendedLog(d, entry), env)>>

(***************************************************************************)
(* EnvResolver::merge and resolve, and the commands' load_env_files.       *)
(***************************************************************************)
\* key_index.get(key): the index of the last entry with the key, 0 if none
KeyIndex(lines, key) ==
    LET hits == {i \in DOMAIN lines : lines[i].kind = "entry" /\ lines[i].key = key} IN
    IF hits = {} THEN 0 ELSE CHOOSE i \in hits : \A j \in hits : j <= i

\* A merge whose key_index keeps, for a key that occurs twice in base, the
\* index of its first entry instead of its last.
RECURSIVE merge_first_index(_, _)
merge_first_index(base, overlay) ==
    IF overlay = <<>> THEN base
    ELSE LET line == Head(overlay)
             hits == IF line.kind = "entry"
                     THEN {i \in DOMAIN base :
                              base[i].kind = "entry" /\ base[i].key = line.key}
                     ELSE {}
             idx == IF hits = {} THEN 0 ELSE CHOOSE i \in hits : \A j \in hits : i <= j
         IN merge_first_index(
                IF idx # 0 THEN [base EXCEPT ![idx] = line] ELSE Append(base, line),
                Tail(overlay))

\* EnvResolver::merge
RECURSIVE merge(_, _)
merge(base, overlay) ==
    IF overlay = <<>> THEN base
    ELSE LET line == Head(overlay)
             idx == IF line.kind = "entry" THEN KeyIndex(base, line.key) ELSE 0
         IN merge(IF idx # 0 THEN [base EXCEPT ![idx] = line] ELSE Append(base, line),
                  Tail(overlay))

\* decrypt_in_memory
decrypt_in_memory(d, enc_path, cph) ==
    IF cph = "age" THEN age_decrypt(d[enc_path].data) ELSE UnknownCipher

\* load_env_files: Ok(name -> lines of the layers that have a file) or the
\* first error
RECURSIVE load_env_files(_, _, _)
load_env_files(d, ch, cph) ==
    IF ch = <<>> THEN Ok(<<>>)
    ELSE LET n == Head(ch)
             rest == load_env_files(d, Tail(ch), cph)
         IN IF EnvEncPath(n) \notin DOMAIN d THEN rest
            ELSE LET r == decrypt_in_memory(d, EnvEncPath(n), cph) IN
                 IF IsErr(r) THEN r
                 ELSE IF IsErr(rest) THEN rest
                 ELSE Ok((n :> r.value.lines) @@ rest.value)

\* The merge loop of EnvResolver::resolve
RECURSIVE resolve_layers(_, _, _)
resolve_layers(merged, ch, files) ==
    IF ch = <<>> THEN merged
    ELSE resolve_layers(IF Head(ch) \in DOMAIN files
                        THEN merge(merged, files[Head(ch)]) ELSE merged,
                        Tail(ch), files)

\* The resolved environment as bytes in memory: decrypted bytes when any
\* layer was decrypted.
Resolved(ch, files) ==
    Plain(resolve_layers(<<>>, ch, files), DOMAIN files # {})

(***************************************************************************)
(* The commands.  A command starts when no other is running (pc = "done"); *)
(* MaxRuns bounds the commands of one behaviour.                           *)
(***************************************************************************)
MaxRuns == 2

StartCommand(c, cph) ==
    /\ pc = "done"
    /\ runs < MaxRuns
    /\ runs' = runs + 1
    /\ cmd' = c
    /\ cipher' = cph
    /\ writes' = <<>>

Finish(result) ==
    /\ pc' = "done"
    /\ fsResult' = result
    /\ plaintext' = None
    /\ pending' = <<>>

\* encrypt.rs:48-56
EncryptAllStart ==
    /\ \E cph \in Ciphers : StartCommand("encrypt_all", cph)
    /\ pending' = SortedNames(DOMAIN environments)
    /\ pc' = "loop"
    /\ plaintext' = None
    /\ fsResult' = Pending
    /\ UNCHANGED <<disk, auditEnabled>>

\* encrypt.rs:58-66
EncryptAllSkip ==
    /\ cmd = "encrypt_all" /\ pc = "loop" /\ pending # <<>>
    /\ EncPath(Head(pending)) \notin DOMAIN disk
    /\ pending' = Tail(pending)
    /\ UNCHANGED <<disk, cmd, pc, cipher, plaintext, fsResult, writes, runs, auditEnabled>>

\* encrypt.rs:69-70, 85-100
EncryptAllDecrypt ==
    /\ cmd = "encrypt_all" /\ pc = "loop" /\ pending # <<>>
    /\ EncPath(Head(pending)) \in DOMAIN disk
    /\ LET ciphertext == disk[EncPath(Head(pending))].data
           r == IF cipher = "age" THEN age_decrypt(ciphertext) ELSE UnknownCipher
       IN IF IsErr(r) THEN Finish(r)
          ELSE /\ plaintext' = Some(r.value)
               /\ pc' = "encrypt"
               /\ UNCHANGED <<pending, fsResult>>
    /\ UNCHANGED <<disk, cmd, cipher, writes, runs, auditEnabled>>

\* EncryptionService::encrypt_bytes up to its fs::write
encrypt_bytes(bytes) ==
    LET recipients == list(recipientsFile) IN
    IF recipients = <<>> THEN Err("EncryptionFailed", "No recipients configured")
    ELSE age_encrypt(bytes, recipients)

\* A re-encryption that stages the plaintext in a file beside the ciphertext
\* before encrypting it.
EncryptAllViaTempFile ==
    /\ cmd = "encrypt_all" /\ pc = "encrypt"
    /\ LET env == Head(pending)
           staged == WriteFile(disk, env_file_name(env), File(Unwrap(plaintext), "encrypt_all"))
           r == encrypt_bytes(Unwrap(plaintext))
       IN IF IsErr(r)
          THEN /\ Finish(r)
               /\ disk' = staged
               /\ writes' = Append(writes, WriteRecord(env_file_name(env), Unwrap(plaintext), env))
          ELSE /\ disk' = WriteFile(staged, EncPath(env), File(r.value, "encrypt_bytes"))
               /\ writes' = writes \o <<WriteRecord(env_file_name(env), Unwrap(plaintext), env),
                                         WriteRecord(EncPath(env), r.value, env)>>
               /\ pc' = "audit"
               /\ UNCHANGED <<pending, plaintext, fsResult>>
    /\ UNCHANGED <<cmd, cipher, runs, auditEnabled>>

\* encrypt.rs:72, 177-220; encryption_service.rs:60-76
EncryptAllEncryptBytes ==
    /\ cmd = "encrypt_all" /\ pc = "encrypt"
    /\ LET env == Head(pending)
           r == encrypt_bytes(Unwrap(plaintext))
       IN IF IsErr(r)
          THEN /\ Finish(r)
               /\ UNCHANGED <<disk, writes>>
          ELSE /\ disk' = WriteFile(disk, EncPath(env), File(r.value, "encrypt_bytes"))
               /\ writes' = Append(writes, WriteRecord(EncPath(env), r.value, env))
               /\ pc' = "audit"
               /\ UNCHANGED <<pending, plaintext, fsResult>>
    /\ UNCHANGED <<cmd, cipher, runs, auditEnabled>>

\* encrypt.rs:229, 235-245, then the end of the loop body
EncryptAllAudit ==
    /\ cmd = "encrypt_all" /\ pc = "audit"
    /\ LET env == Head(pending)
           entry == AuditEntry("Encrypt", <<EnvEncPath(env)>>, Some("sha256"))
       IN /\ disk' = log_audit_with_hash(disk, entry)
          /\ writes' = writes \o AuditWrites(disk, entry, env)
    /\ pending' = Tail(pending)
    /\ plaintext' = None
    /\ pc' = "loop"
    /\ UNCHANGED <<cmd, cipher, fsResult, runs, auditEnabled>>

\* encrypt.rs:77-81
EncryptAllFinish ==
    /\ cmd = "encrypt_all" /\ pc = "loop" /\ pending = <<>>
    /\ Finish(Ok(<<>>))
    /\ UNCHANGED <<disk, cmd, cipher, writes, runs, auditEnabled>>

\* encrypt.rs:30-41, 103-171; encryption_service.rs:19-39
EncryptSingle ==
    /\ \E cph \in Ciphers, env \in {"a", "b"} :
         /\ StartCommand("encrypt", cph)
         /\ IF DotEnv \notin DOMAIN disk
            THEN /\ Finish(Err("FileNotFound", DotEnv))
                 /\ UNCHANGED disk
            ELSE IF cph # "age"
            THEN /\ Finish(UnknownCipher)
                 /\ UNCHANGED disk
            ELSE LET r == encrypt_bytes(disk[DotEnv].data)
                     entry == AuditEntry("Encrypt", <<EnvEncPath(env)>>, Some("sha256"))
                 IN IF IsErr(r)
                    THEN /\ Finish(r)
                         /\ UNCHANGED disk
                    ELSE /\ Finish(Ok(<<>>))
                         /\ disk' = log_audit_with_hash(
                                WriteFile(disk, EnvEncPath(env), File(r.value, "encrypt_file")),
                                entry)
    /\ UNCHANGED auditEnabled

\* decrypt.rs:17-129; encryption_service.rs:45-54
Decrypt ==
    /\ \E cph \in Ciphers, env \in {"a", "b"} :
         /\ StartCommand("decrypt", cph)
         /\ LET source == EnvEncPath(env) IN
            IF source \notin DOMAIN disk
            THEN /\ Finish(Err("FileNotFound", source))
                 /\ UNCHANGED disk
            ELSE LET r == IF cph = "age" THEN age_decrypt(disk[source].data)
                          ELSE UnknownCipher
                     entry == AuditEntry("Decrypt", <<source>>, None)
                 IN IF IsErr(r)
                    THEN /\ Finish(r)
                         /\ UNCHANGED disk
                    ELSE /\ Finish(Ok(<<>>))
                         /\ disk' = log_audit_with_hash(
                                WriteFile(disk, DotEnv, File(r.value, "decrypt_file")), entry)
    /\ UNCHANGED auditEnabled

\* Start EnvResolver::build_chain(n, config)
StartBuildChain(n) ==
    /\ name' = n
    /\ chain' = <<>>
    /\ visited' = {}
    /\ current' = n
    /\ bcResult' = Pending

\* resolve.rs:20-37
ResolveStart ==
    /\ \E cph \in Ciphers, env \in {"a", "b", "c"} :
         /\ StartCommand("resolve", cph)
         /\ StartBuildChain(env)
    /\ pc' = "chain"
    /\ fsResult' = Pending
    /\ UNCHANGED <<disk, pending, plaintext, auditEnabled>>

\* A loop iteration of the build_chain a command is waiting for
CommandBuildChainStep ==
    /\ pc \in {"chain", "left", "right"}
    /\ BuildChainStep
    /\ UNCHANGED <<disk, cmd, pc, cipher, pending, plaintext, fsResult, writes, runs,
                   auditEnabled>>

\* resolve.rs:37-61
ResolveFinish ==
    /\ cmd = "resolve" /\ pc = "chain" /\ bcResult # Pending
    /\ IF IsErr(bcResult)
       THEN /\ Finish(bcResult)
            /\ UNCHANGED <<disk, writes>>
       ELSE LET files == load_env_files(disk, bcResult.value, cipher) IN
            IF IsErr(files)
            THEN /\ Finish(files)
                 /\ UNCHANGED <<disk, writes>>
            ELSE LET content == Resolved(bcResult.value, files.value) IN
                 /\ Finish(Ok(<<>>))
                 /\ disk' = WriteFile(disk, DotEnv, File(content, "resolve"))
                 /\ writes' = Append(writes, WriteRecord(DotEnv, content, name))
    /\ UNCHANGED <<cmd, cipher, runs, auditEnabled>>

\* diff.rs:38-55
EnvDiffStart ==
    /\ \E cph \in Ciphers, left_env \in {"a", "b"}, right_env \in {"a", "b"} :
         /\ StartCommand("diff", cph)
         /\ StartBuildChain(left_env)
         /\ pending' = <<right_env>>
    /\ pc' = "left"
    /\ fsResult' = Pending
    /\ UNCHANGED <<disk, plaintext, auditEnabled>>

\* An env diff that keeps the resolved left side in a file while it resolves
\* the right side.
EnvDiffLeftToDisk ==
    /\ cmd = "diff" /\ pc = "left" /\ bcResult # Pending
    /\ IF IsErr(bcResult)
       THEN /\ Finish(bcResult)
            /\ UNCHANGED <<name, chain, visited, current, bcResult, disk, writes>>
       ELSE LET files == load_env_files(disk, bcResult.value, cipher) IN
            IF IsErr(files)
            THEN /\ Finish(files)
                 /\ UNCHANGED <<name, chain, visited, current, bcResult, disk, writes>>
            ELSE LET content == Resolved(bcResult.value, files.value) IN
                 /\ plaintext' = Some(content)
                 /\ disk' = WriteFile(disk, name \o ".env", File(content, "diff"))
                 /\ writes' = Append(writes, WriteRecord(name \o ".env", content, name))
                 /\ StartBuildChain(Head(pending))
                 /\ pc' = "right"
                 /\ UNCHANGED <<pending, fsResult>>
    /\ UNCHANGED <<cmd, cipher, runs, auditEnabled>>

\* diff.rs:55-60
EnvDiffLeft ==
    /\ cmd = "diff" /\ pc = "left" /\ bcResult # Pending
    /\ IF IsErr(bcResult)
       THEN /\ Finish(bcResult)
            /\ UNCHANGED <<name, chain, visited, current, bcResult>>
       ELSE LET files == load_env_files(disk, bcResult.value, cipher) IN
            IF IsErr(files)
            THEN /\ Finish(files)
                 /\ UNCHANGED <<name, chain, visited, current, bcResult>>
            ELSE /\ plaintext' = Some(Resolved(bcResult.value, files.value))
                 /\ StartBuildChain(Head(pending))
                 /\ pc' = "right"
                 /\ UNCHANGED <<pending, fsResult>>
    /\ UNCHANGED <<disk, cmd, cipher, writes, runs, auditEnabled>>

\* diff.rs:60-76
EnvDiffRight ==
    /\ cmd = "diff" /\ pc = "right" /\ bcResult # Pending
    /\ IF IsErr(bcResult) THEN Finish(bcResult)
       ELSE LET files == load_env_files(disk, bcResult.value, cipher) IN
            IF IsErr(files) THEN Finish(files)
            ELSE Finish(Ok(Unwrap(plaintext).lines = Resolved(bcResult.value, files.value).lines))
    /\ UNCHANGED <<disk, cmd, cipher, writes, runs, auditEnabled>>

(***************************************************************************)
(* The projects the filesystem model starts from.                          *)
(***************************************************************************)
SecretsA == <<Entry("K", "1"), Comment("c")>>
SecretsB == <<Entry("K", "2"), Entry("L", "3")>>

FsConfigs ==
    { ("a" :> EnvEntry(None, None)) @@ ("b" :> EnvEntry(None, Some("a"))),
      ("a" :> EnvEntry(None, None)) @@ ("b" :> EnvEntry(Some("s.env"), Some("a"))),
      ("a" :> EnvEntry(None, Some("b"))) @@ ("b" :> EnvEntry(None, Some("a"))) }

Mine(lines) == File(Ciphertext(lines, {Identity}), "encrypt_file")
Theirs(lines) == File(Ciphertext(lines, {KeyEmail}), "encrypt_file")
UserEnv == File(Plain(<<Entry("K", "0")>>, FALSE), "user")

InitialDisks ==
    { <<>>,
      ("a.env.enc" :> Mine(SecretsA)) @@ ("b.env.enc" :> Mine(SecretsB)),
      ("a.env.enc" :> Mine(SecretsA)) @@ ("b.env.enc" :> Theirs(SecretsB)),
      ("a.env.enc" :> File(Junk, "user")) @@ (DotEnv :> UserEnv),
      ("a.env.enc" :> Mine(SecretsA)) @@ ("s.env.enc" :> Mine(SecretsB))
          @@ (DotEnv :> UserEnv) }

\* recipients.txt: empty as init leaves it, the local key, the local key and
\* a GPG recipient the age backend cannot parse.
RecipientFiles ==
    { Some(<<>>), Some(serialize(<<KeyIdentity(KeyAge, None, None)>>)),
      Some(serialize(<<KeyIdentity(KeyAge, None, None), KeyIdentity(KeyEmail, None, None)>>)) }

FsInit ==
    /\ disk \in InitialDisks
    /\ auditEnabled \in BOOLEAN
    /\ cmd = "none"
    /\ pc = "done"
    /\ cipher = "age"
    /\ pending = <<>>
    /\ plaintext = None
    /\ fsResult = Idle
    /\ writes = <<>>
    /\ runs = 0

FsIdle ==
    /\ disk = <<>>
    /\ auditEnabled = FALSE
    /\ cmd = "none"
    /\ pc = "idle"
    /\ cipher = "age"
    /\ pending = <<>>
    /\ plaintext = None
    /\ fsResult = Idle
    /\ writes = <<>>
    /\ runs = 0

(***************************************************************************)
(* SecretFile::get and EnvResolver::resolve.                               *)
(***************************************************************************)
Blank == [kind |-> "blank"]

\* SecretFile::get: the value of the first entry with the key
get(lines, key) ==
    LET hits == {i \in DOMAIN lines : lines[i].kind = "entry" /\ lines[i].key = key} IN
    IF hits = {} THEN None
    ELSE Some(lines[CHOOSE i \in hits : \A j \in hits : i <= j].value)

Environment(n, resolved, layers) ==
    [name |-> n, resolved |-> resolved, layers |-> layers]

\* The `files` maps resolve is called with: none, a file per layer, a layer
\* without a file, a file in which a key occurs twice.
ResolveFiles ==
    { <<>>,
      ("a" :> <<Entry("K", "1"), Entry("L", "1")>>)
          @@ ("b" :> <<Entry("K", "2"), Comment("c")>>)
          @@ ("c" :> <<Blank, Entry("L", "3"), Entry("M", "3")>>),
      ("a" :> <<Entry("K", "1")>>) @@ ("c" :> <<Entry("K", "3")>>),
      ("a" :> <<Entry("K", "1"), Entry("K", "2")>>) @@ ("b" :> <<Entry("L", "3")>>) }

ResolveInit ==
    /\ layerFiles \in ResolveFiles
    /\ rsResult = Pending

ResolveIdle ==
    /\ layerFiles = <<>>
    /\ rsResult = Idle

\* env_resolver.rs:32-49, once its build_chain has returned
ResolveReturn ==
    /\ rsResult = Pending
    /\ bcResult # Pending
    /\ rsResult' = IF IsErr(bcResult) THEN bcResult
                   ELSE Ok(Environment(name,
                                       resolve_layers(<<>>, bcResult.value, layerFiles),
                                       bcResult.value))
    /\ UNCHANGED layerFiles

(***************************************************************************)
(* merge on every pair of small SecretFiles.                               *)
(***************************************************************************)
MaxLines == 2

SecretLines ==
    {Entry("K", "1"), Entry("K", "2"), Entry("L", "1"), Comment("c"), Blank}

\* Every SecretFile of at most MaxLines lines: keys may repeat.
SecretFiles == UNION {[1..n -> SecretLines] : n \in 0..MaxLines}

MergeInit ==
    /\ mergeBase \in SecretFiles
    /\ mergeOverlay \in SecretFiles
    /\ mergeResult = Pending

MergeIdle ==
    /\ mergeBase = <<>>
    /\ mergeOverlay = <<>>
    /\ mergeResult = Idle

Merge ==
    /\ mergeResult = Pending
    /\ mergeResult' = Ok(merge(mergeBase, mergeOverlay))
    /\ UNCHANGED <<mergeBase, mergeOverlay>>

(***************************************************************************)
(* JsonAuditLogger.  The log file is a sequence of pieces: a line feed, a  *)
(* space, the text of one complete JSON object, or the first bytes of one. *)
(* An author or an email is a sequence of characters.                      *)
(***************************************************************************)
Nl == [kind |-> "nl"]
Sp == [kind |-> "space"]
Truncated == [kind |-> "truncated"]

\* serde_json::to_string(entry): the text of one object, without line feed
to_string(entry) == <<[kind |-> "json", entry |-> entry]>>

\* serde_json::from_str::<AuditEntry>: the text must be exactly one object
from_str(text) ==
    IF Len(text) = 1 /\ text[1].kind = "json"
    THEN Ok(text[1].entry)
    ELSE Err("Json", [at |-> Len(text)])

\* BufRead::lines: the pieces between line feeds; a final line feed is
\* optional.
RECURSIVE ReaderLines(_)
ReaderLines(bytes) ==
    IF bytes = <<>> THEN <<>>
    ELSE LET hits == {i \in DOMAIN bytes : bytes[i] = Nl} IN
         IF hits = {} THEN <<bytes>>
         ELSE LET i == CHOOSE h \in hits : \A j \in hits : h <= j IN
              <<SubSeq(bytes, 1, i - 1)>> \o ReaderLines(SubSeq(bytes, i + 1, Len(bytes)))

\* str::trim on a line of the log
RECURSIVE TrimLine(_)
TrimLine(text) ==
    IF text # <<>> /\ Head(text) = Sp THEN TrimLine(Tail(text))
    ELSE IF text # <<>> /\ text[Len(text)] = Sp
    THEN TrimLine(SubSeq(text, 1, Len(text) - 1))
    ELSE text

\* str::to_lowercase on the letters the model uses
LowerCase == [A |-> "a", L |-> "l", T |-> "t"]
to_lowercase(s) ==
    [i \in DOMAIN s |-> IF s[i] \in DOMAIN LowerCase THEN LowerCase[s[i]] ELSE s[i]]

\* str::contains(&str)
ContainsStr(s, sub) ==
    \E i \in 0..(Len(s) - Len(sub)) : SubSeq(s, i + 1, i + Len(sub)) = sub

\* AuditEntry, with the fields query reads
AuditRecord(timestamp, author, email) ==
    [timestamp |-> timestamp, author |-> author, email |-> email]

\* A filter on the author that compares without lower-casing.
matches_case_sensitive(entry, author, since) ==
    /\ IsSome(author) =>
          \/ ContainsStr(entry.author, Unwrap(author))
          \/ IsSome(entry.email) /\ ContainsStr(Unwrap(entry.email), Unwrap(author))
    /\ IsSome(since) => ~(entry.timestamp < Unwrap(since))

\* The filters of query: TRUE when the entry is pushed
matches(entry, author, since) ==
    /\ IsSome(author) =>
          LET author_lower == to_lowercase(Unwrap(author))
              matches_name == ContainsStr(to_lowercase(entry.author), author_lower)
              matches_email ==
                  /\ IsSome(entry.email)
                  /\ ContainsStr(to_lowercase(Unwrap(entry.email)), author_lower)
          IN matches_name \/ matches_email
    /\ IsSome(since) => ~(entry.timestamp < Unwrap(since))

\* A loop that skips a line that does not parse.
RECURSIVE query_skipping_malformed(_, _, _, _)
query_skipping_malformed(ls, line_num, author, since) ==
    IF ls = <<>> THEN Ok(<<>>)
    ELSE LET trimmed == TrimLine(Head(ls))
             rest == query_skipping_malformed(Tail(ls), line_num + 1, author, since)
             parsed == from_str(trimmed)
         IN IF trimmed = <<>> \/ IsErr(parsed) THEN rest
            ELSE IF IsErr(rest) THEN rest
            ELSE IF matches(parsed.value, author, since)
            THEN Ok(<<parsed.value>> \o rest.value)
            ELSE rest

\* The loop of query over reader.lines().enumerate()
RECURSIVE query_lines(_, _, _, _)
query_lines(ls, line_num, author, since) ==
    IF ls = <<>> THEN Ok(<<>>)
    ELSE LET trimmed == TrimLine(Head(ls))
             rest == query_lines(Tail(ls), line_num + 1, author, since)
             parsed == from_str(trimmed)
         IN IF trimmed = <<>> THEN rest
            ELSE IF IsErr(parsed)
            THEN Err("AuditError", [line |-> line_num + 1])
            ELSE IF IsErr(rest) THEN rest
            ELSE IF matches(parsed.value, author, since)
            THEN Ok(<<parsed.value>> \o rest.value)
            ELSE rest

\* JsonAuditLogger::query on the file at log_path
query(file, author, since) ==
    IF ~IsSome(file) THEN Ok(<<>>)
    ELSE query_lines(ReaderLines(Unwrap(file)), 0, author, since)

\* A log_event that opens the file with truncate instead of append.
log_event_truncate(file, entry) ==
    Some(to_string(entry) \o <<Nl>>)

\* JsonAuditLogger::log_event when open and writeln succeed: the file after
log_event(file, entry) ==
    Some((IF IsSome(file) THEN Unwrap(file) ELSE <<>>) \o to_string(entry) \o <<Nl>>)

\* Bound of the audit model: the log_event calls that succeed.
MaxEvents == 2

Alice == <<"A", "l">>
Bob == <<"b", "o">>
Timestamps == {1, 2}
Authors == {<<Alice, None>>, <<Bob, Some(<<"a", "@", "T">>)>>}
AuditRecords ==
    {AuditRecord(t, a[1], a[2]) : t \in Timestamps, a \in Authors}

AuthorFilters ==
    {None, Some(<<>>), Some(<<"a", "l">>), Some(<<"A", "L">>), Some(<<"@", "t">>),
     Some(<<"o">>)}
SinceFilters == {None} \cup {Some(t) : t \in Timestamps}

E0 == AuditRecord(2, Alice, None)
E1 == AuditRecord(1, Bob, Some(<<"a", "@", "T">>))

\* The logs a run starts from: absent, empty, written by log_event, with
\* blank lines, without a final line feed, with a truncated last line, with
\* a line that is no entry between two entries.
InitialLogs ==
    { None,
      Some(<<>>),
      Some(to_string(E0) \o <<Nl>>),
      Some(to_string(E0) \o <<Nl, Nl, Sp, Nl, Sp>> \o to_string(E1) \o <<Sp, Nl>>),
      Some(to_string(E0) \o <<Nl>> \o to_string(E1)),
      Some(to_string(E0) \o <<Nl, Truncated>>),
      Some(<<Nl>> \o to_string(E0) \o <<Nl, Truncated, Nl>> \o to_string(E1) \o <<Nl>>),
      Some(to_string(E0) \o <<Sp>> \o to_string(E1) \o <<Nl>>) }

AuditCallOf(op, args, result) == [op |-> op, args |-> args, result |-> result]

AuditInit ==
    /\ logFile \in InitialLogs
    /\ priorLog = logFile
    /\ logged = <<>>
    /\ auditCall = AuditCallOf("none", <<>>, Idle)

AuditIdle ==
    /\ logFile = None
    /\ priorLog = None
    /\ logged = <<>>
    /\ auditCall = AuditCallOf("none", <<>>, Idle)

\* log_event returns Ok(())
LogEvent ==
    /\ Len(logged) < MaxEvents
    /\ \E entry \in AuditRecords :
          /\ logFile' = log_event(logFile, entry)
          /\ logged' = Append(logged, entry)
          /\ auditCall' = AuditCallOf("log_event", <<entry>>, Ok(<<>>))
    /\ UNCHANGED priorLog

\* log_event fails to open the file
LogEventFails ==
    /\ \E entry \in AuditRecords :
          auditCall' = AuditCallOf("log_event", <<entry>>,
                                   Err("AuditError", [line |-> 0]))
    /\ UNCHANGED <<logFile, priorLog, logged>>

Query ==
    /\ \E author \in AuthorFilters, since \in SinceFilters :
          auditCall' = AuditCallOf("query", <<author, since>>,
                                   query(logFile, author, since))
    /\ UNCHANGED <<logFile, priorLog, logged>>

(***************************************************************************)
(* The commands and their audit call: what each execute writes, the entry  *)
(* it hands to log_audit, and what it returns.                             *)
(***************************************************************************)
Commands ==
    {"init", "encrypt", "encrypt --all", "decrypt", "keys add", "keys remove",
     "keys setup", "check", "hook install", "hook uninstall"}

RecipientsTxt == "recipients.txt"
EnvSets == {<<"dev">>, <<"dev", "prod">>}

CommandInit ==
    /\ invoked = "none"
    /\ stage = "start"
    /\ targets = <<>>
    /\ envsLeft = <<>>
    /\ changed = {}
    /\ toLog = None
    /\ auditLines = <<>>
    /\ warnings = 0
    /\ workFailed = FALSE
    /\ exitResult = Pending
    /\ enabled \in BOOLEAN
    /\ writable \in BOOLEAN

CommandIdle ==
    /\ invoked = "none"
    /\ stage = "idle"
    /\ targets = <<>>
    /\ envsLeft = <<>>
    /\ changed = {}
    /\ toLog = None
    /\ auditLines = <<>>
    /\ warnings = 0
    /\ workFailed = FALSE
    /\ exitResult = Idle
    /\ enabled = FALSE
    /\ writable = FALSE

\* main's dispatch to a command's execute
Invoke ==
    /\ stage = "start"
    /\ \E c \in Commands, envs \in EnvSets :
          /\ invoked' = c
          /\ targets' = IF c = "encrypt --all" THEN envs ELSE <<>>
          /\ envsLeft' = targets'
    /\ stage' = "run"
    /\ UNCHANGED <<changed, toLog, auditLines, warnings, workFailed, exitResult,
                   enabled, writable>>

\* A `?` of the command itself returns the error: the audit call is not
\* reached.
CommandFails ==
    /\ stage = "run"
    /\ workFailed' = TRUE
    /\ exitResult' = Err("CommandFailed", [command |-> invoked])
    /\ stage' = "returned"
    /\ UNCHANGED <<invoked, targets, envsLeft, changed, toLog, auditLines, warnings,
                   enabled, writable>>

\* The command wrote the files and goes on to its audit call, or to its
\* Ok(()) when it has none.
Work(c, files, entry) ==
    /\ stage = "run"
    /\ invoked = c
    /\ changed' = changed \cup files
    /\ toLog' = entry
    /\ stage' = IF IsSome(entry) THEN "audit" ELSE "return"
    /\ UNCHANGED <<invoked, targets, envsLeft, auditLines, warnings, workFailed,
                   exitResult, enabled, writable>>

\* init::execute: config.toml and recipients.txt, no audit call
InitCommand == Work("init", {"config.toml", RecipientsTxt, ".env.template"}, None)

\* encrypt_with: encrypt_file, then log_encrypt_audit
EncryptCommand ==
    Work("encrypt", {EnvEncPath("dev")},
         Some(AuditEntry("Encrypt", <<EnvEncPath("dev")>>, Some("sha256"))))

\* One turn of encrypt_all's loop: encrypt_bytes_to writes the file and
\* calls log_encrypt_audit
EncryptAllCommand ==
    /\ envsLeft # <<>>
    /\ Work("encrypt --all", {EnvEncPath(Head(envsLeft))},
            Some(AuditEntry("Encrypt", <<EnvEncPath(Head(envsLeft))>>, Some("sha256"))))

\* encrypt_all after the loop
EncryptAllDone ==
    /\ stage = "run"
    /\ invoked = "encrypt --all"
    /\ envsLeft = <<>>
    /\ stage' = "return"
    /\ UNCHANGED <<invoked, targets, envsLeft, changed, toLog, auditLines, warnings,
                   workFailed, exitResult, enabled, writable>>

\* decrypt_with: decrypt_file, then log_audit
DecryptCommand ==
    Work("decrypt", {DotEnv}, Some(AuditEntry("Decrypt", <<EnvEncPath("dev")>>, None)))

\* keys::execute_add
KeysAddCommand ==
    Work("keys add", {RecipientsTxt}, Some(AuditEntry("KeyAdd", <<>>, None)))

\* keys::execute_remove
KeysRemoveCommand ==
    Work("keys remove", {RecipientsTxt}, Some(AuditEntry("KeyRemove", <<>>, None)))

\* keys setup: the identity file, then try_auto_add_recipient, which adds
\* the key when recipients.txt exists and add_key returns Ok; no audit call
KeysSetupCommand ==
    \E added \in BOOLEAN :
        Work("keys setup",
             {"keys.txt"} \cup (IF added THEN {RecipientsTxt} ELSE {}), None)

\* check::execute
CheckCommand == Work("check", {}, Some(AuditEntry("Check", <<DotEnv>>, None)))

\* hook::execute_install
HookInstallCommand ==
    Work("hook install", {"pre-commit"}, Some(AuditEntry("HookInstall", <<>>, None)))

\* hook::execute_uninstall
HookUninstallCommand ==
    Work("hook uninstall", {"pre-commit"}, Some(AuditEntry("HookUninstall", <<>>, None)))

\* An audit call that returns log_event's error to the command with `?`.
LogAuditPropagating ==
    /\ stage = "audit"
    /\ IF ~enabled
       THEN UNCHANGED <<auditLines, warnings, exitResult, workFailed>> /\ stage' = "return"
       ELSE IF writable
       THEN /\ auditLines' = Append(auditLines, Unwrap(toLog))
            /\ stage' = "return"
            /\ UNCHANGED <<warnings, exitResult, workFailed>>
       ELSE /\ exitResult' = Err("AuditError", [command |-> invoked])
            /\ stage' = "returned"
            /\ UNCHANGED <<auditLines, warnings, workFailed>>
    /\ toLog' = None
    /\ UNCHANGED <<invoked, targets, envsLeft, changed, enabled, writable>>

\* audit_helpers::log_audit_with_hash, and the return to the caller: the
\* next turn of encrypt_all's loop, or the command's Ok(())
LogAudit ==
    /\ stage = "audit"
    /\ IF ~enabled
       THEN UNCHANGED <<auditLines, warnings>>
       ELSE IF writable
       THEN auditLines' = Append(auditLines, Unwrap(toLog)) /\ UNCHANGED warnings
       ELSE warnings' = warnings + 1 /\ UNCHANGED auditLines
    /\ toLog' = None
    /\ stage' = IF invoked = "encrypt --all" THEN "run" ELSE "return"
    /\ envsLeft' = IF invoked = "encrypt --all" THEN Tail(envsLeft) ELSE envsLeft
    /\ UNCHANGED <<invoked, targets, changed, workFailed, exitResult, enabled, writable>>

\* The command's final Ok(())
CommandReturns ==
    /\ stage = "return"
    /\ exitResult' = Ok(<<>>)
    /\ stage' = "returned"
    /\ UNCHANGED <<invoked, targets, envsLeft, changed, toLog, auditLines, warnings,
                   workFailed, enabled, writable>>

(***************************************************************************)
(* CipherBackend::decrypt.  The input is a message of one of the two       *)
(* formats, encrypted to a set of keys, whole or damaged in its header or  *)
(* in its payload, or bytes that are no message at all.                    *)
(***************************************************************************)
Message(format, recipients, damage) ==
    [kind |-> "message", format |-> format, recipients |-> recipients,
     damage |-> damage]
Garbage == [kind |-> "garbage", format |-> "none", recipients |-> {}, damage |-> "header"]

\* The keys a backend holds: the identity file (missing, not an identity
\* file, or its identities) or the keyring.
Keys(state, identities) == [state |-> state, identities |-> identities]

\* Bytes the backend's parser accepts as a message header.
HeaderParses(format, bytes) ==
    bytes.kind = "message" /\ bytes.format = format /\ bytes.damage # "header"

\* AgeBackend::load_identities
load_identities(keys) ==
    IF keys.state = "missing"
    THEN Err("EncryptionFailed", [reason |-> "Failed to read identity file"])
    ELSE IF keys.state = "unparseable"
    THEN Err("DecryptionNoKey", [reason |-> ""])
    ELSE Ok(keys.identities)

\* AgeBackend::decrypt
age_backend_decrypt(keys, bytes) ==
    LET identities == load_identities(keys) IN
    IF IsErr(identities) THEN identities
    ELSE IF ~HeaderParses("age", bytes)
    THEN Err("EncryptionFailed", [reason |-> "Invalid encrypted file"])
    ELSE IF identities.value \cap bytes.recipients = {}
    THEN Err("DecryptionNoKey", [reason |-> ""])
    ELSE IF bytes.damage = "payload"
    THEN Err("EncryptionFailed", [reason |-> "Read decrypted data failed"])
    ELSE Ok("plaintext")

\* GpgBackend::run_gpg with --decrypt: gpg exits with an error for bytes
\* that are no OpenPGP message, for a damaged message and for a message
\* none of the keyring's secret keys opens
run_gpg(keys, bytes) ==
    IF keys.state = "missing"
    THEN Err("EncryptionFailed", [reason |-> "Failed to run gpg"])
    ELSE IF \/ ~HeaderParses("gpg", bytes)
            \/ keys.identities \cap bytes.recipients = {}
            \/ bytes.damage = "payload"
    THEN Err("EncryptionFailed", [reason |-> "gpg exited with error"])
    ELSE Ok("plaintext")

\* GpgBackend::decrypt
gpg_backend_decrypt(keys, bytes) ==
    LET r == run_gpg(keys, bytes) IN
    IF IsErr(r) THEN Err("DecryptionNoKey", [reason |-> ""]) ELSE r

Backends == {"age", "gpg"}
SecretKeys == {"K1", "K2"}
Damages == {"none", "header", "payload"}
Inputs ==
    {Message(f, rs, dmg) : f \in Backends, rs \in SUBSET SecretKeys \ {{}},
                           dmg \in Damages} \cup {Garbage}
KeyStates ==
    {Keys("missing", {}), Keys("unparseable", {})}
        \cup {Keys("ok", ks) : ks \in SUBSET SecretKeys}

DecryptInit ==
    /\ decBackend \in Backends
    /\ decKeys \in KeyStates
    /\ decBackend = "gpg" => decKeys.state # "unparseable"
    /\ decInput \in Inputs
    /\ decResult = Pending

DecryptIdle ==
    /\ decBackend = "none"
    /\ decKeys = Keys("missing", {})
    /\ decInput = Garbage
    /\ decResult = Idle

AgeDecrypt ==
    /\ decResult = Pending
    /\ decBackend = "age"
    /\ decResult' = age_backend_decrypt(decKeys, decInput)
    /\ UNCHANGED <<decBackend, decKeys, decInput>>

GpgDecrypt ==
    /\ decResult = Pending
    /\ decBackend = "gpg"
    /\ decResult' = gpg_backend_decrypt(decKeys, decInput)
    /\ UNCHANGED <<decBackend, decKeys, decInput>>

(***************************************************************************)
(* context::validate_env_name and validate_simple_filename on every        *)
(* string of a few characters.                                             *)
(***************************************************************************)
AsciiAlphanumeric ==
    {"a", "b", "c", "d", "e", "f", "g", "h", "i", "j", "k", "l", "m", "n", "o", "p",
     "q", "r", "s", "t", "u", "v", "w", "x", "y", "z",
     "A", "B", "C", "D", "E", "F", "G", "H", "I", "J", "K", "L", "M", "N", "O", "P",
     "Q", "R", "S", "T", "U", "V", "W", "X", "Y", "Z",
     "0", "1", "2", "3", "4", "5", "6", "7", "8", "9"}

\* A validate_env_name that also lets a dot through.
validate_env_name_with_dots(s) ==
    IF s = <<>>
    THEN Err("InvalidConfig", [detail |-> "Environment name cannot be empty."])
    ELSE IF ~(\A i \in DOMAIN s : s[i] \in AsciiAlphanumeric \cup {"_", "-", "."})
    THEN Err("InvalidConfig", [detail |-> "Invalid environment name"])
    ELSE Ok(<<>>)

\* context::validate_env_name
validate_env_name(s) ==
    IF s = <<>>
    THEN Err("InvalidConfig", [detail |-> "Environment name cannot be empty."])
    ELSE IF ~(\A i \in DOMAIN s : s[i] \in AsciiAlphanumeric \/ s[i] = "_" \/ s[i] = "-")
    THEN Err("InvalidConfig", [detail |-> "Invalid environment name"])
    ELSE Ok(<<>>)

\* context::validate_simple_filename
validate_simple_filename(s) ==
    IF s = <<>>
    THEN Err("InvalidConfig", [detail |-> "cannot be empty."])
    ELSE IF \/ Contains(s, "/")
            \/ Contains(s, "\\")
            \/ ContainsStr(s, <<".", ".">>)
            \/ StartsWith(s, <<".">>)
    THEN Err("InvalidConfig", [detail |-> "Unsafe"])
    ELSE Ok(<<>>)

\* Bound of the validator model: the length of the strings tried.
MaxNameLen == 3

NameChars == {"a", "Z", "0", "_", "-", ".", "/", "\\", " "}
NameStrings == UNION {[1..n -> NameChars] : n \in 0..MaxNameLen}

ValidateInit ==
    /\ vnInput \in NameStrings
    /\ vnResult = Pending
    /\ vfResult = Pending

ValidateIdle ==
    /\ vnInput = <<>>
    /\ vnResult = Idle
    /\ vfResult = Idle

ValidateEnvName ==
    /\ vnResult = Pending
    /\ vnResult' = validate_env_name(vnInput)
    /\ UNCHANGED <<vnInput, vfResult>>

ValidateSimpleFilename ==
    /\ vfResult = Pending
    /\ vfResult' = validate_simple_filename(vnInput)
    /\ UNCHANGED <<vnInput, vnResult>>

(***************************************************************************)
(* main: every --env value goes through validate_env_name before the       *)
(* command is dispatched.                                                  *)
(***************************************************************************)
\* Bound of the model of main: the --env values on a command line.
MaxEnvArgs == 2

EnvArgs ==
    {<<"a">>, <<"Z", "0">>, <<>>, <<".", ".", "/", "a">>, <<"a", "/", "a">>}
EnvArgLists == UNION {[1..n -> EnvArgs] : n \in 0..MaxEnvArgs}
MainCommands == {"encrypt", "decrypt", "resolve", "diff", "check"}

MainInit ==
    /\ argv \in [command : MainCommands, env : EnvArgLists]
    /\ mainStage = "validate"
    /\ envIndex = 0
    /\ builtFrom = {}
    /\ exitCode = None

MainIdle ==
    /\ argv = [command |-> "none", env |-> <<>>]
    /\ mainStage = "idle"
    /\ envIndex = 0
    /\ builtFrom = {}
    /\ exitCode = None

\* A loop that validates only the value the single-env commands use.
ValidateFirstEnvArg ==
    /\ mainStage = "validate"
    /\ envIndex < Len(argv.env)
    /\ IF envIndex = 0 /\ IsErr(validate_env_name(argv.env[1]))
       THEN /\ mainStage' = "exited"
            /\ exitCode' = Some(1)
            /\ envIndex' = envIndex + 1
       ELSE /\ envIndex' = Len(argv.env)
            /\ UNCHANGED <<mainStage, exitCode>>
    /\ UNCHANGED <<argv, builtFrom>>

\* One turn of main's loop over args.env
ValidateEnvArg ==
    /\ mainStage = "validate"
    /\ envIndex < Len(argv.env)
    /\ envIndex' = envIndex + 1
    /\ IF IsErr(validate_env_name(argv.env[envIndex + 1]))
       THEN /\ mainStage' = "exited"
            /\ exitCode' = Some(1)
       ELSE UNCHANGED <<mainStage, exitCode>>
    /\ UNCHANGED <<argv, builtFrom>>

\* The --env values the dispatched command builds <env>.env.enc from:
\* diff gets all of them, the others the first one
EnvsOfCommand ==
    IF argv.command = "diff" THEN Range(argv.env)
    ELSE IF argv.command = "check" \/ argv.env = <<>> THEN {}
    ELSE {argv.env[1]}

\* main's match on args.command
Dispatch ==
    /\ mainStage = "validate"
    /\ envIndex = Len(argv.env)
    /\ mainStage' = "dispatched"
    /\ builtFrom' = EnvsOfCommand
    /\ UNCHANGED <<argv, envIndex, exitCode>>

\* The command returned: exit(1) on Err, the end of main on Ok
MainExit ==
    /\ mainStage = "dispatched"
    /\ mainStage' = "exited"
    /\ \E status \in {0, 1} : exitCode' = Some(status)
    /\ UNCHANGED <<argv, envIndex, builtFrom>>

(***************************************************************************)
(* DotenvParser.  A content, a key and a value are sequences of            *)
(* characters.                                                             *)
(***************************************************************************)
\* dotenv_parser::strip_quotes
strip_quotes(s) ==
    IF /\ Len(s) >= 2
       /\ \/ s[1] = "\"" /\ s[Len(s)] = "\""
          \/ s[1] = "'" /\ s[Len(s)] = "'"
    THEN SubSeq(s, 2, Len(s) - 1)
    ELSE s

\* DotenvParser::parse_line
dotenv_parse_line(raw, line_number) ==
    LET trimmed == Trim(raw)
        eq_pos == IndexOf(trimmed, "=")
        key == Trim(SubSeq(trimmed, 1, eq_pos - 1))
        raw_value == Trim(SubSeq(trimmed, eq_pos + 1, Len(trimmed)))
    IN IF trimmed = <<>> THEN Ok(Blank)
       ELSE IF Head(trimmed) = "#" THEN Ok(Comment(raw))
       ELSE IF eq_pos = 0
       THEN Err("ParseError", [line |-> line_number, detail |-> "expected KEY=value"])
       ELSE IF key = <<>>
       THEN Err("ParseError", [line |-> line_number, detail |-> "empty key"])
       ELSE Ok(Entry(key, strip_quotes(raw_value)))

\* DotenvParser::parse: the lines, or the error of the first line that has
\* one
RECURSIVE dotenv_parse_from(_, _)
dotenv_parse_from(ls, line_number) ==
    IF ls = <<>> THEN Ok(<<>>)
    ELSE LET first == dotenv_parse_line(Head(ls), line_number) IN
         IF IsErr(first) THEN first
         ELSE LET rest == dotenv_parse_from(Tail(ls), line_number + 1) IN
              IF IsErr(rest) THEN rest ELSE Ok(<<first.value>> \o rest.value)

dotenv_parse(text) == dotenv_parse_from(Lines(text), 1)

\* What serialize writes for one line
SerializedLine(line) ==
    IF line.kind = "entry" THEN line.key \o <<"=">> \o line.value
    ELSE IF line.kind = "comment" THEN line.text
    ELSE <<>>

\* DotenvParser::serialize
dotenv_serialize(lines) ==
    JoinChars([i \in DOMAIN lines |-> SerializedLine(lines[i])], <<"\n">>)

\* Bound of the parser model: the length of the contents tried.
MaxContentLen == 4

ContentChars == {"K", "=", "v", " ", "#", "\n", "\""}
Contents == UNION {[1..n -> ContentChars] : n \in 0..MaxContentLen}

DotenvInit ==
    /\ dotenvText \in Contents
    /\ dotenvParsed = Pending
    /\ dotenvOut = Pending

DotenvIdle ==
    /\ dotenvText = <<>>
    /\ dotenvParsed = Idle
    /\ dotenvOut = Idle

DotenvParse ==
    /\ dotenvParsed = Pending
    /\ dotenvParsed' = dotenv_parse(dotenvText)
    /\ UNCHANGED <<dotenvText, dotenvOut>>

DotenvSerialize ==
    /\ IsOk(dotenvParsed)
    /\ dotenvOut = Pending
    /\ dotenvOut' = Ok(dotenv_serialize(dotenvParsed.value))
    /\ UNCHANGED <<dotenvText, dotenvParsed>>

(***************************************************************************)
(* CheckService::check.  Keys are taken from CheckKeys, which lists them   *)
(* in lexicographic order.                                                 *)
(***************************************************************************)
CheckKeys == <<"A", "B", "C">>

\* BTreeSet iteration: the keys of the set in order
InOrder(S) == SelectSeq(CheckKeys, LAMBDA k : k \in S)

\* SecretFile::keys as a set
KeySet(lines) == {lines[i].key : i \in {j \in DOMAIN lines : lines[j].kind = "entry"}}

CheckResult(missing, extra, empty_values) ==
    [missing |-> missing, extra |-> extra, empty_values |-> empty_values]

\* CheckResult::is_ok
is_ok(result) ==
    result.missing = <<>> /\ result.extra = <<>> /\ result.empty_values = <<>>

\* local.entries().filter(|e| e.value.is_empty()).map(|e| e.key)
RECURSIVE EmptyValueKeys(_)
EmptyValueKeys(lines) ==
    IF lines = <<>> THEN <<>>
    ELSE (IF Head(lines).kind = "entry" /\ Head(lines).value = ""
          THEN <<Head(lines).key>> ELSE <<>>) \o EmptyValueKeys(Tail(lines))

\* CheckService::check
check(local, template) ==
    LET local_keys == KeySet(local)
        template_keys == KeySet(template)
    IN Ok(CheckResult(InOrder(template_keys \ local_keys),
                      InOrder(local_keys \ template_keys),
                      EmptyValueKeys(local)))

\* Bound of the check model: the lines of a file.
MaxCheckLines == 2

CheckLines ==
    {Entry("A", ""), Entry("A", "x"), Entry("B", ""), Entry("B", "x"), Entry("C", "x")}
CheckFiles == UNION {[1..n -> CheckLines] : n \in 0..MaxCheckLines}

CheckInit ==
    /\ checkLocal \in CheckFiles
    /\ checkTemplate \in CheckFiles
    /\ checkResult = Pending

CheckIdle ==
    /\ checkLocal = <<>>
    /\ checkTemplate = <<>>
    /\ checkResult = Idle

Check ==
    /\ checkResult = Pending
    /\ checkResult' = check(checkLocal, checkTemplate)
    /\ UNCHANGED <<checkLocal, checkTemplate>>

(***************************************************************************)
(* TemplateResolver::resolve_global.                                       *)
(***************************************************************************)
TEMPLATE_CANDIDATES == <<".env.template", ".env.example", ".env.sample", "env.template">>

\* TemplateResolver::auto_discover
auto_discover(existing) ==
    LET hits == {i \in DOMAIN TEMPLATE_CANDIDATES : TEMPLATE_CANDIDATES[i] \in existing} IN
    IF hits # {}
    THEN Ok(TEMPLATE_CANDIDATES[CHOOSE i \in hits : \A j \in hits : i <= j])
    ELSE Err("TemplateNotFound", [searched |-> TEMPLATE_CANDIDATES])

\* TemplateResolver::resolve_global
resolve_global(tpl, existing) ==
    IF IsSome(tpl) /\ Unwrap(tpl) \in existing
    THEN Ok(Unwrap(tpl))
    ELSE auto_discover(existing)

ConfiguredTemplates == {None, Some("custom.tpl"), Some(".env.sample")}
RootFiles == SUBSET ({"custom.tpl"} \cup Range(TEMPLATE_CANDIDATES))

TemplateInit ==
    /\ tplConfig \in ConfiguredTemplates
    /\ tplExisting \in RootFiles
    /\ tplResult = Pending

TemplateIdle ==
    /\ tplConfig = None
    /\ tplExisting = {}
    /\ tplResult = Idle

ResolveGlobal ==
    /\ tplResult = Pending
    /\ tplResult' = resolve_global(tplConfig, tplExisting)
    /\ UNCHANGED <<tplConfig, tplExisting>>

(***************************************************************************)
(* verify_sha256 on its own: a download is verified, one byte of it is     *)
(* changed, and it is verified again.                                      *)
(***************************************************************************)
\* SHA256SUMS.txt as a release publishes it, with and without a final line
\* ending (verifier.rs:118-119).
ChecksumTexts ==
    Manifests \cup { <<"a", "1", " ", " ", "v", "\n", "b", "2", " ", " ", "w">>,
                     <<"b", "2", " ", " ", "v">> }

\* The bytes a changed position can hold.
TamperBytes == {"a", "b", "1", " ", "v", "\n"}

NoTamper == [what |-> "nothing", at |-> 0, was |-> ""]

VerifyInit ==
    /\ verData \in Binaries
    /\ verText \in ChecksumTexts
    /\ verFirst = Pending
    /\ verTamper = NoTamper
    /\ verSecond = Idle

VerifyIdle ==
    /\ verData = "release-binary"
    /\ verText = <<>>
    /\ verFirst = Idle
    /\ verTamper = NoTamper
    /\ verSecond = Idle

\* verify_sha256(&binary_data, &info.asset_name, &checksums_content)
VerifyDownloaded ==
    /\ verFirst = Pending
    /\ verFirst' = verify_sha256(verData, PlatformAsset, verText)
    /\ UNCHANGED <<verData, verText, verTamper, verSecond>>

\* The binary is changed after it verified.
TamperData ==
    /\ verFirst # Pending /\ IsOk(verFirst) /\ verSecond = Idle
    /\ \E b \in Binaries \ {verData} : verData' = b
    /\ verTamper' = [what |-> "data", at |-> 0, was |-> ""]
    /\ verSecond' = Pending
    /\ UNCHANGED <<verText, verFirst>>

\* One byte of SHA256SUMS.txt is changed after the binary verified.
TamperText ==
    /\ verFirst # Pending /\ IsOk(verFirst) /\ verSecond = Idle
    /\ \E i \in DOMAIN verText : \E c \in TamperBytes \ {verText[i]} :
         /\ verText' = [verText EXCEPT ![i] = c]
         /\ verTamper' = [what |-> "txt", at |-> i, was |-> verText[i]]
    /\ verSecond' = Pending
    /\ UNCHANGED <<verData, verFirst>>

\* verify_sha256 on the changed download
VerifyTampered ==
    /\ verSecond = Pending
    /\ verSecond' = verify_sha256(verData, PlatformAsset, verText)
    /\ UNCHANGED <<verData, verText, verFirst, verTamper>>

(***************************************************************************)
(* The key store as one vaultic process drives it from a fresh project:    *)
(* recipients.txt absent or empty, every key checked by the CLI first.     *)
(***************************************************************************)
FreshKeysInit ==
    /\ recipientsFile \in {None, Some(<<>>)}
    /\ lastCall = NoCall

\* keys::execute_add: validate_recipient_key, then KeyService::add_key
AddAccepted ==
    \E identity \in Identities :
        /\ validate_recipient_key(identity.public_key)
        /\ add(identity)

\* keys::execute_remove with a key the validator accepts
RemoveAccepted ==
    \E public_key \in PublicKeys :
        /\ validate_recipient_key(public_key)
        /\ remove(public_key)

(***************************************************************************)
(* FileKeyStore::add run by two processes on one recipients.txt, with no   *)
(* lock: list(), then std::fs::write, which creates (truncates) the file   *)
(* and then writes the whole new content at offset 0.                      *)
(***************************************************************************)
Processes == {1, 2}
Other(proc) == CHOOSE o \in Processes : o # proc

\* write_all of content at offset 0 of a file that may have grown since it
\* was truncated.
Overlay(content, file) ==
    content \o SubSeq(file, Len(content) + 1, Len(file))

RaceKeys == {KeyEmail, KeyAge, KeyFingerprint}
RaceFiles == {None, Some(<<>>), Some(serialize(<<KeyIdentity(KeyEmail, None, None)>>))}

RaceInit ==
    /\ storeFile \in RaceFiles
    /\ addKey \in {f \in [Processes -> {KeyIdentity(k, None, Some(Now)) : k \in RaceKeys}] :
                      f[1].public_key # f[2].public_key}
    /\ addPc = [proc \in Processes |-> "start"]
    /\ addSeen = [proc \in Processes |-> <<>>]
    /\ addResult = [proc \in Processes |-> Pending]
    /\ overlapped = FALSE
    /\ lastWriter = 0

RaceIdle ==
    /\ storeFile = None
    /\ addKey = <<>>
    /\ addPc = <<>>
    /\ addSeen = <<>>
    /\ addResult = <<>>
    /\ overlapped = FALSE
    /\ lastWriter = 0

\* file_key_store.rs:76-86: self.list()? and the duplicate check
ReadList(proc) ==
    /\ addPc[proc] = "start"
    /\ LET existing == list(storeFile) IN
       IF HasKey(existing, addKey[proc].public_key)
       THEN /\ addResult' = [addResult EXCEPT
                                ![proc] = Err("KeyAlreadyExists", addKey[proc].public_key)]
            /\ addPc' = [addPc EXCEPT ![proc] = "done"]
            /\ UNCHANGED addSeen
       ELSE /\ addSeen' = [addSeen EXCEPT ![proc] = existing]
            /\ addPc' = [addPc EXCEPT ![proc] = "read"]
            /\ UNCHANGED addResult
    /\ overlapped' = (overlapped \/ addPc[Other(proc)] \in {"read", "truncated"})
    /\ UNCHANGED <<storeFile, addKey, lastWriter>>

\* file_key_store.rs:89, std::fs::write: File::create truncates the file
TruncateFile(proc) ==
    /\ addPc[proc] = "read"
    /\ storeFile' = Some(<<>>)
    /\ addPc' = [addPc EXCEPT ![proc] = "truncated"]
    /\ UNCHANGED <<addKey, addSeen, addResult, overlapped, lastWriter>>

\* A rewrite that stores the new identity alone.
WriteAllOwnKey(proc) ==
    /\ addPc[proc] = "truncated"
    /\ storeFile' = Some(Overlay(serialize(<<addKey[proc]>>), Unwrap(storeFile)))
    /\ addPc' = [addPc EXCEPT ![proc] = "done"]
    /\ addResult' = [addResult EXCEPT ![proc] = Ok(<<>>)]
    /\ lastWriter' = proc
    /\ UNCHANGED <<addKey, addSeen, overlapped>>

\* file_key_store.rs:88-90, std::fs::write: write_all of serialize(existing
\* + identity), then Ok(())
WriteAll(proc) ==
    /\ addPc[proc] = "truncated"
    /\ storeFile' = Some(Overlay(serialize(Append(addSeen[proc], addKey[proc])),
                                 Unwrap(storeFile)))
    /\ addPc' = [addPc EXCEPT ![proc] = "done"]
    /\ addResult' = [addResult EXCEPT ![proc] = Ok(<<>>)]
    /\ lastWriter' = proc
    /\ UNCHANGED <<addKey, addSeen, overlapped>>

ConcurrentReadList == \E proc \in Processes : ReadList(proc)
ConcurrentTruncate == \E proc \in Processes : TruncateFile(proc)
ConcurrentWriteAll == \E proc \in Processes : WriteAll(proc)

(***************************************************************************)
(* JsonAuditLogger::log_event run by two processes on one audit log.  The  *)
(* file is opened with append, so every write lands whole at the end of    *)
(* the file; writeln!(file, "{line}") on the unbuffered File formats the   *)
(* entry and the line feed as two pieces, which reach the file in one      *)
(* write or in two, depending on how write_fmt is built.                   *)
(***************************************************************************)
AppendLogs == {None, Some(<<>>), Some(to_string(E0) \o <<Nl>>)}

AppendInit ==
    /\ sharedLog \in AppendLogs
    /\ logPrior = sharedLog
    /\ logEntryOf \in [Processes -> AuditRecords]
    /\ logPc = [proc \in Processes |-> "start"]
    /\ logResult = [proc \in Processes |-> Pending]
    /\ logQuery = Idle

AppendIdle ==
    /\ sharedLog = None
    /\ logPrior = None
    /\ logEntryOf = <<>>
    /\ logPc = <<>>
    /\ logResult = <<>>
    /\ logQuery = Idle

\* json_audit_logger.rs:60-64: OpenOptions create + append
OpenAppend(proc) ==
    /\ logPc[proc] = "start"
    /\ sharedLog' = IF IsSome(sharedLog) THEN sharedLog ELSE Some(<<>>)
    /\ logPc' = [logPc EXCEPT ![proc] = "opened"]
    /\ UNCHANGED <<logPrior, logEntryOf, logResult, logQuery>>

\* json_audit_logger.rs:65-67: the open fails
OpenAppendFails(proc) ==
    /\ logPc[proc] = "start"
    /\ logPc' = [logPc EXCEPT ![proc] = "done"]
    /\ logResult' = [logResult EXCEPT ![proc] = Err("AuditError", [line |-> 0])]
    /\ UNCHANGED <<sharedLog, logPrior, logEntryOf, logQuery>>

\* json_audit_logger.rs:69-72: writeln! reaches the file as one write
WriteEntryAndLineFeed(proc) ==
    /\ logPc[proc] = "opened"
    /\ sharedLog' = log_event(sharedLog, logEntryOf[proc])
    /\ logPc' = [logPc EXCEPT ![proc] = "done"]
    /\ logResult' = [logResult EXCEPT ![proc] = Ok(<<>>)]
    /\ UNCHANGED <<logPrior, logEntryOf, logQuery>>

\* json_audit_logger.rs:69: writeln! writes the formatted entry ...
WriteEntry(proc) ==
    /\ logPc[proc] = "opened"
    /\ sharedLog' = Some(Unwrap(sharedLog) \o to_string(logEntryOf[proc]))
    /\ logPc' = [logPc EXCEPT ![proc] = "line"]
    /\ UNCHANGED <<logPrior, logEntryOf, logResult, logQuery>>

\* json_audit_logger.rs:69-72: ... and then the line feed
WriteLineFeed(proc) ==
    /\ logPc[proc] = "line"
    /\ sharedLog' = Some(Unwrap(sharedLog) \o <<Nl>>)
    /\ logPc' = [logPc EXCEPT ![proc] = "done"]
    /\ logResult' = [logResult EXCEPT ![proc] = Ok(<<>>)]
    /\ UNCHANGED <<logPrior, logEntryOf, logQuery>>

\* query(None, None) once both calls have returned
QueryShared ==
    /\ \A proc \in Processes : logPc[proc] = "done"
    /\ logQuery = Idle
    /\ logQuery' = query(sharedLog, None, None)
    /\ UNCHANGED <<sharedLog, logPrior, logEntryOf, logPc, logResult>>

ConcurrentOpen == \E proc \in Processes : OpenAppend(proc)
ConcurrentOpenFails == \E proc \in Processes : OpenAppendFails(proc)
ConcurrentWriteWhole == \E proc \in Processes : WriteEntryAndLineFeed(proc)
ConcurrentWriteEntry == \E proc \in Processes : WriteEntry(proc)
ConcurrentWriteLineFeed == \E proc \in Processes : WriteLineFeed(proc)

vars == <<cfgVars, chainVars, keyVars, updVars, fsVars, resolveVars, mergeVars, auditVars, cmdVars, decVars, validateVars, mainVars, dotenvVars, checkVars, tplVars, verVars, raceVars, appendVars>>

InitChain ==
    /\ environments \in ChainConfigs
    /\ name \in EnvNames \cup {Undefined}
    /\ BuildChainInit
    /\ KeysIdle
    /\ UpdateIdle
    /\ FsIdle
    /\ ResolveIdle
    /\ MergeIdle
    /\ AuditIdle
    /\ CommandIdle
    /\ DecryptIdle
    /\ ValidateIdle
    /\ MainIdle
    /\ DotenvIdle
    /\ CheckIdle
    /\ TemplateIdle
    /\ VerifyIdle
    /\ RaceIdle
    /\ AppendIdle

NextChain ==
    \/ CycleDetected /\ UNCHANGED <<cfgVars, keyVars, updVars, fsVars, resolveVars, mergeVars, auditVars, cmdVars, decVars, validateVars, mainVars, dotenvVars, checkVars, tplVars, verVars, raceVars, appendVars>>
    \/ EntryMissing /\ UNCHANGED <<cfgVars, keyVars, updVars, fsVars, resolveVars, mergeVars, auditVars, cmdVars, decVars, validateVars, mainVars, dotenvVars, checkVars, tplVars, verVars, raceVars, appendVars>>
    \/ VisitParent /\ UNCHANGED <<cfgVars, keyVars, updVars, fsVars, resolveVars, mergeVars, auditVars, cmdVars, decVars, validateVars, mainVars, dotenvVars, checkVars, tplVars, verVars, raceVars, appendVars>>
    \/ VisitRoot /\ UNCHANGED <<cfgVars, keyVars, updVars, fsVars, resolveVars, mergeVars, auditVars, cmdVars, decVars, validateVars, mainVars, dotenvVars, checkVars, tplVars, verVars, raceVars, appendVars>>

SpecChain == InitChain /\ [][NextChain]_vars

\* The loop is the only thing the function does: it runs until it returns.
SpecChainFair == SpecChain /\ WF_vars(NextChain)

InitKeys ==
    /\ KeysInit
    /\ environments = <<>>
    /\ ChainIdle
    /\ UpdateIdle
    /\ FsIdle
    /\ ResolveIdle
    /\ MergeIdle
    /\ AuditIdle
    /\ CommandIdle
    /\ DecryptIdle
    /\ ValidateIdle
    /\ MainIdle
    /\ DotenvIdle
    /\ CheckIdle
    /\ TemplateIdle
    /\ VerifyIdle
    /\ RaceIdle
    /\ AppendIdle

NextKeys ==
    \/ Add /\ UNCHANGED <<cfgVars, chainVars, updVars, fsVars, resolveVars, mergeVars, auditVars, cmdVars, decVars, validateVars, mainVars, dotenvVars, checkVars, tplVars, verVars, raceVars, appendVars>>
    \/ Remove /\ UNCHANGED <<cfgVars, chainVars, updVars, fsVars, resolveVars, mergeVars, auditVars, cmdVars, decVars, validateVars, mainVars, dotenvVars, checkVars, tplVars, verVars, raceVars, appendVars>>

SpecKeys == InitKeys /\ [][NextKeys]_vars

InitUpdate ==
    /\ UpdateInit
    /\ environments = <<>>
    /\ ChainIdle
    /\ KeysIdle
    /\ FsIdle
    /\ ResolveIdle
    /\ MergeIdle
    /\ AuditIdle
    /\ CommandIdle
    /\ DecryptIdle
    /\ ValidateIdle
    /\ MainIdle
    /\ DotenvIdle
    /\ CheckIdle
    /\ TemplateIdle
    /\ VerifyIdle
    /\ RaceIdle
    /\ AppendIdle

NextUpdate ==
    \/ FetchUpdateInfo /\ UNCHANGED <<cfgVars, chainVars, keyVars, fsVars, resolveVars, mergeVars, auditVars, cmdVars, decVars, validateVars, mainVars, dotenvVars, checkVars, tplVars, verVars, raceVars, appendVars>>
    \/ DownloadBinary /\ UNCHANGED <<cfgVars, chainVars, keyVars, fsVars, resolveVars, mergeVars, auditVars, cmdVars, decVars, validateVars, mainVars, dotenvVars, checkVars, tplVars, verVars, raceVars, appendVars>>
    \/ DownloadChecksums /\ UNCHANGED <<cfgVars, chainVars, keyVars, fsVars, resolveVars, mergeVars, auditVars, cmdVars, decVars, validateVars, mainVars, dotenvVars, checkVars, tplVars, verVars, raceVars, appendVars>>
    \/ DownloadSignature /\ UNCHANGED <<cfgVars, chainVars, keyVars, fsVars, resolveVars, mergeVars, auditVars, cmdVars, decVars, validateVars, mainVars, dotenvVars, checkVars, tplVars, verVars, raceVars, appendVars>>
    \/ VerifySignature /\ UNCHANGED <<cfgVars, chainVars, keyVars, fsVars, resolveVars, mergeVars, auditVars, cmdVars, decVars, validateVars, mainVars, dotenvVars, checkVars, tplVars, verVars, raceVars, appendVars>>
    \/ VerifySha256 /\ UNCHANGED <<cfgVars, chainVars, keyVars, fsVars, resolveVars, mergeVars, auditVars, cmdVars, decVars, validateVars, mainVars, dotenvVars, checkVars, tplVars, verVars, raceVars, appendVars>>
    \/ WriteTempFile /\ UNCHANGED <<cfgVars, chainVars, keyVars, fsVars, resolveVars, mergeVars, auditVars, cmdVars, decVars, validateVars, mainVars, dotenvVars, checkVars, tplVars, verVars, raceVars, appendVars>>
    \/ SelfReplace /\ UNCHANGED <<cfgVars, chainVars, keyVars, fsVars, resolveVars, mergeVars, auditVars, cmdVars, decVars, validateVars, mainVars, dotenvVars, checkVars, tplVars, verVars, raceVars, appendVars>>

SpecUpdate == InitUpdate /\ [][NextUpdate]_vars

InitFs ==
    /\ FsInit
    /\ environments \in FsConfigs
    /\ recipientsFile \in RecipientFiles
    /\ lastCall = NoCall
    /\ ChainIdle
    /\ UpdateIdle
    /\ ResolveIdle
    /\ MergeIdle
    /\ AuditIdle
    /\ CommandIdle
    /\ DecryptIdle
    /\ ValidateIdle
    /\ MainIdle
    /\ DotenvIdle
    /\ CheckIdle
    /\ TemplateIdle
    /\ VerifyIdle
    /\ RaceIdle
    /\ AppendIdle

NextFs ==
    \/ EncryptAllStart /\ UNCHANGED <<cfgVars, chainVars, keyVars, updVars, resolveVars, mergeVars, auditVars, cmdVars, decVars, validateVars, mainVars, dotenvVars, checkVars, tplVars, verVars, raceVars, appendVars>>
    \/ EncryptAllSkip /\ UNCHANGED <<cfgVars, chainVars, keyVars, updVars, resolveVars, mergeVars, auditVars, cmdVars, decVars, validateVars, mainVars, dotenvVars, checkVars, tplVars, verVars, raceVars, appendVars>>
    \/ EncryptAllDecrypt /\ UNCHANGED <<cfgVars, chainVars, keyVars, updVars, resolveVars, mergeVars, auditVars, cmdVars, decVars, validateVars, mainVars, dotenvVars, checkVars, tplVars, verVars, raceVars, appendVars>>
    \/ EncryptAllEncryptBytes /\ UNCHANGED <<cfgVars, chainVars, keyVars, updVars, resolveVars, mergeVars, auditVars, cmdVars, decVars, validateVars, mainVars, dotenvVars, checkVars, tplVars, verVars, raceVars, appendVars>>
    \/ EncryptAllAudit /\ UNCHANGED <<cfgVars, chainVars, keyVars, updVars, resolveVars, mergeVars, auditVars, cmdVars, decVars, validateVars, mainVars, dotenvVars, checkVars, tplVars, verVars, raceVars, appendVars>>
    \/ EncryptAllFinish /\ UNCHANGED <<cfgVars, chainVars, keyVars, updVars, resolveVars, mergeVars, auditVars, cmdVars, decVars, validateVars, mainVars, dotenvVars, checkVars, tplVars, verVars, raceVars, appendVars>>
    \/ EncryptSingle /\ UNCHANGED <<cfgVars, chainVars, keyVars, updVars, resolveVars, mergeVars, auditVars, cmdVars, decVars, validateVars, mainVars, dotenvVars, checkVars, tplVars, verVars, raceVars, appendVars>>
    \/ Decrypt /\ UNCHANGED <<cfgVars, chainVars, keyVars, updVars, resolveVars, mergeVars, auditVars, cmdVars, decVars, validateVars, mainVars, dotenvVars, checkVars, tplVars, verVars, raceVars, appendVars>>
    \/ ResolveStart /\ UNCHANGED <<cfgVars, keyVars, updVars, resolveVars, mergeVars, auditVars, cmdVars, decVars, validateVars, mainVars, dotenvVars, checkVars, tplVars, verVars, raceVars, appendVars>>
    \/ CommandBuildChainStep /\ UNCHANGED <<cfgVars, keyVars, updVars, resolveVars, mergeVars, auditVars, cmdVars, decVars, validateVars, mainVars, dotenvVars, checkVars, tplVars, verVars, raceVars, appendVars>>
    \/ ResolveFinish /\ UNCHANGED <<cfgVars, chainVars, keyVars, updVars, resolveVars, mergeVars, auditVars, cmdVars, decVars, validateVars, mainVars, dotenvVars, checkVars, tplVars, verVars, raceVars, appendVars>>
    \/ EnvDiffStart /\ UNCHANGED <<cfgVars, keyVars, updVars, resolveVars, mergeVars, auditVars, cmdVars, decVars, validateVars, mainVars, dotenvVars, checkVars, tplVars, verVars, raceVars, appendVars>>
    \/ EnvDiffLeft /\ UNCHANGED <<cfgVars, keyVars, updVars, resolveVars, mergeVars, auditVars, cmdVars, decVars, validateVars, mainVars, dotenvVars, checkVars, tplVars, verVars, raceVars, appendVars>>
    \/ EnvDiffRight /\ UNCHANGED <<cfgVars, chainVars, keyVars, updVars, resolveVars, mergeVars, auditVars, cmdVars, decVars, validateVars, mainVars, dotenvVars, checkVars, tplVars, verVars, raceVars, appendVars>>

SpecFs == InitFs /\ [][NextFs]_vars

InitResolve ==
    /\ environments \in ChainConfigs
    /\ name \in EnvNames \cup {Undefined}
    /\ BuildChainInit
    /\ ResolveInit
    /\ KeysIdle
    /\ UpdateIdle
    /\ FsIdle
    /\ MergeIdle
    /\ AuditIdle
    /\ CommandIdle
    /\ DecryptIdle
    /\ ValidateIdle
    /\ MainIdle
    /\ DotenvIdle
    /\ CheckIdle
    /\ TemplateIdle
    /\ VerifyIdle
    /\ RaceIdle
    /\ AppendIdle

NextResolve ==
    \/ CycleDetected /\ UNCHANGED <<cfgVars, keyVars, updVars, fsVars, resolveVars, mergeVars, auditVars, cmdVars, decVars, validateVars, mainVars, dotenvVars, checkVars, tplVars, verVars, raceVars, appendVars>>
    \/ EntryMissing /\ UNCHANGED <<cfgVars, keyVars, updVars, fsVars, resolveVars, mergeVars, auditVars, cmdVars, decVars, validateVars, mainVars, dotenvVars, checkVars, tplVars, verVars, raceVars, appendVars>>
    \/ VisitParent /\ UNCHANGED <<cfgVars, keyVars, updVars, fsVars, resolveVars, mergeVars, auditVars, cmdVars, decVars, validateVars, mainVars, dotenvVars, checkVars, tplVars, verVars, raceVars, appendVars>>
    \/ VisitRoot /\ UNCHANGED <<cfgVars, keyVars, updVars, fsVars, resolveVars, mergeVars, auditVars, cmdVars, decVars, validateVars, mainVars, dotenvVars, checkVars, tplVars, verVars, raceVars, appendVars>>
    \/ ResolveReturn /\ UNCHANGED <<cfgVars, chainVars, keyVars, updVars, fsVars, mergeVars, auditVars, cmdVars, decVars, validateVars, mainVars, dotenvVars, checkVars, tplVars, verVars, raceVars, appendVars>>

SpecResolve == InitResolve /\ [][NextResolve]_vars

InitMerge ==
    /\ MergeInit
    /\ environments = <<>>
    /\ ChainIdle
    /\ KeysIdle
    /\ UpdateIdle
    /\ FsIdle
    /\ ResolveIdle
    /\ AuditIdle
    /\ CommandIdle
    /\ DecryptIdle
    /\ ValidateIdle
    /\ MainIdle
    /\ DotenvIdle
    /\ CheckIdle
    /\ TemplateIdle
    /\ VerifyIdle
    /\ RaceIdle
    /\ AppendIdle

NextMerge ==
    \/ Merge /\ UNCHANGED <<cfgVars, chainVars, keyVars, updVars, fsVars, resolveVars, auditVars, cmdVars, decVars, validateVars, mainVars, dotenvVars, checkVars, tplVars, verVars, raceVars, appendVars>>

SpecMerge == InitMerge /\ [][NextMerge]_vars

InitAudit ==
    /\ AuditInit
    /\ environments = <<>>
    /\ ChainIdle
    /\ KeysIdle
    /\ UpdateIdle
    /\ FsIdle
    /\ ResolveIdle
    /\ MergeIdle
    /\ CommandIdle
    /\ DecryptIdle
    /\ ValidateIdle
    /\ MainIdle
    /\ DotenvIdle
    /\ CheckIdle
    /\ TemplateIdle
    /\ VerifyIdle
    /\ RaceIdle
    /\ AppendIdle

NextAudit ==
    \/ LogEvent /\ UNCHANGED <<cfgVars, chainVars, keyVars, updVars, fsVars, resolveVars, mergeVars, cmdVars, decVars, validateVars, mainVars, dotenvVars, checkVars, tplVars, verVars, raceVars, appendVars>>
    \/ LogEventFails /\ UNCHANGED <<cfgVars, chainVars, keyVars, updVars, fsVars, resolveVars, mergeVars, cmdVars, decVars, validateVars, mainVars, dotenvVars, checkVars, tplVars, verVars, raceVars, appendVars>>
    \/ Query /\ UNCHANGED <<cfgVars, chainVars, keyVars, updVars, fsVars, resolveVars, mergeVars, cmdVars, decVars, validateVars, mainVars, dotenvVars, checkVars, tplVars, verVars, raceVars, appendVars>>

SpecAudit == InitAudit /\ [][NextAudit]_vars

InitCli ==
    /\ CommandInit
    /\ environments = <<>>
    /\ ChainIdle
    /\ KeysIdle
    /\ UpdateIdle
    /\ FsIdle
    /\ ResolveIdle
    /\ MergeIdle
    /\ AuditIdle
    /\ DecryptIdle
    /\ ValidateIdle
    /\ MainIdle
    /\ DotenvIdle
    /\ CheckIdle
    /\ TemplateIdle
    /\ VerifyIdle
    /\ RaceIdle
    /\ AppendIdle

NextCli ==
    \/ Invoke /\ UNCHANGED <<cfgVars, chainVars, keyVars, updVars, fsVars, resolveVars, mergeVars, auditVars, decVars, validateVars, mainVars, dotenvVars, checkVars, tplVars, verVars, raceVars, appendVars>>
    \/ CommandFails /\ UNCHANGED <<cfgVars, chainVars, keyVars, updVars, fsVars, resolveVars, mergeVars, auditVars, decVars, validateVars, mainVars, dotenvVars, checkVars, tplVars, verVars, raceVars, appendVars>>
    \/ InitCommand /\ UNCHANGED <<cfgVars, chainVars, keyVars, updVars, fsVars, resolveVars, mergeVars, auditVars, decVars, validateVars, mainVars, dotenvVars, checkVars, tplVars, verVars, raceVars, appendVars>>
    \/ EncryptCommand /\ UNCHANGED <<cfgVars, chainVars, keyVars, updVars, fsVars, resolveVars, mergeVars, auditVars, decVars, validateVars, mainVars, dotenvVars, checkVars, tplVars, verVars, raceVars, appendVars>>
    \/ EncryptAllCommand /\ UNCHANGED <<cfgVars, chainVars, keyVars, updVars, fsVars, resolveVars, mergeVars, auditVars, decVars, validateVars, mainVars, dotenvVars, checkVars, tplVars, verVars, raceVars, appendVars>>
    \/ EncryptAllDone /\ UNCHANGED <<cfgVars, chainVars, keyVars, updVars, fsVars, resolveVars, mergeVars, auditVars, decVars, validateVars, mainVars, dotenvVars, checkVars, tplVars, verVars, raceVars, appendVars>>
    \/ DecryptCommand /\ UNCHANGED <<cfgVars, chainVars, keyVars, updVars, fsVars, resolveVars, mergeVars, auditVars, decVars, validateVars, mainVars, dotenvVars, checkVars, tplVars, verVars, raceVars, appendVars>>
    \/ KeysAddCommand /\ UNCHANGED <<cfgVars, chainVars, keyVars, updVars, fsVars, resolveVars, mergeVars, auditVars, decVars, validateVars, mainVars, dotenvVars, checkVars, tplVars, verVars, raceVars, appendVars>>
    \/ KeysRemoveCommand /\ UNCHANGED <<cfgVars, chainVars, keyVars, updVars, fsVars, resolveVars, mergeVars, auditVars, decVars, validateVars, mainVars, dotenvVars, checkVars, tplVars, verVars, raceVars, appendVars>>
    \/ KeysSetupCommand /\ UNCHANGED <<cfgVars, chainVars, keyVars, updVars, fsVars, resolveVars, mergeVars, auditVars, decVars, validateVars, mainVars, dotenvVars, checkVars, tplVars, verVars, raceVars, appendVars>>
    \/ CheckCommand /\ UNCHANGED <<cfgVars, chainVars, keyVars, updVars, fsVars, resolveVars, mergeVars, auditVars, decVars, validateVars, mainVars, dotenvVars, checkVars, tplVars, verVars, raceVars, appendVars>>
    \/ HookInstallCommand /\ UNCHANGED <<cfgVars, chainVars, keyVars, updVars, fsVars, resolveVars, mergeVars, auditVars, decVars, validateVars, mainVars, dotenvVars, checkVars, tplVars, verVars, raceVars, appendVars>>
    \/ HookUninstallCommand /\ UNCHANGED <<cfgVars, chainVars, keyVars, updVars, fsVars, resolveVars, mergeVars, auditVars, decVars, validateVars, mainVars, dotenvVars, checkVars, tplVars, verVars, raceVars, appendVars>>
    \/ LogAudit /\ UNCHANGED <<cfgVars, chainVars, keyVars, updVars, fsVars, resolveVars, mergeVars, auditVars, decVars, validateVars, mainVars, dotenvVars, checkVars, tplVars, verVars, raceVars, appendVars>>
    \/ CommandReturns /\ UNCHANGED <<cfgVars, chainVars, keyVars, updVars, fsVars, resolveVars, mergeVars, auditVars, decVars, validateVars, mainVars, dotenvVars, checkVars, tplVars, verVars, raceVars, appendVars>>

SpecCli == InitCli /\ [][NextCli]_vars

InitDecrypt ==
    /\ DecryptInit
    /\ environments = <<>>
    /\ ChainIdle
    /\ KeysIdle
    /\ UpdateIdle
    /\ FsIdle
    /\ ResolveIdle
    /\ MergeIdle
    /\ AuditIdle
    /\ CommandIdle
    /\ ValidateIdle
    /\ MainIdle
    /\ DotenvIdle
    /\ CheckIdle
    /\ TemplateIdle
    /\ VerifyIdle
    /\ RaceIdle
    /\ AppendIdle

NextDecrypt ==
    \/ AgeDecrypt /\ UNCHANGED <<cfgVars, chainVars, keyVars, updVars, fsVars, resolveVars, mergeVars, auditVars, cmdVars, validateVars, mainVars, dotenvVars, checkVars, tplVars, verVars, raceVars, appendVars>>
    \/ GpgDecrypt /\ UNCHANGED <<cfgVars, chainVars, keyVars, updVars, fsVars, resolveVars, mergeVars, auditVars, cmdVars, validateVars, mainVars, dotenvVars, checkVars, tplVars, verVars, raceVars, appendVars>>

SpecDecrypt == InitDecrypt /\ [][NextDecrypt]_vars

InitValidate ==
    /\ ValidateInit
    /\ environments = <<>>
    /\ ChainIdle
    /\ KeysIdle
    /\ UpdateIdle
    /\ FsIdle
    /\ ResolveIdle
    /\ MergeIdle
    /\ AuditIdle
    /\ CommandIdle
    /\ DecryptIdle
    /\ MainIdle
    /\ DotenvIdle
    /\ CheckIdle
    /\ TemplateIdle
    /\ VerifyIdle
    /\ RaceIdle
    /\ AppendIdle

NextValidate ==
    \/ ValidateEnvName /\ UNCHANGED <<cfgVars, chainVars, keyVars, updVars, fsVars, resolveVars, mergeVars, auditVars, cmdVars, decVars, mainVars, dotenvVars, checkVars, tplVars, verVars, raceVars, appendVars>>
    \/ ValidateSimpleFilename /\ UNCHANGED <<cfgVars, chainVars, keyVars, updVars, fsVars, resolveVars, mergeVars, auditVars, cmdVars, decVars, mainVars, dotenvVars, checkVars, tplVars, verVars, raceVars, appendVars>>

SpecValidate == InitValidate /\ [][NextValidate]_vars

InitMain ==
    /\ MainInit
    /\ environments = <<>>
    /\ ChainIdle
    /\ KeysIdle
    /\ UpdateIdle
    /\ FsIdle
    /\ ResolveIdle
    /\ MergeIdle
    /\ AuditIdle
    /\ CommandIdle
    /\ DecryptIdle
    /\ ValidateIdle
    /\ DotenvIdle
    /\ CheckIdle
    /\ TemplateIdle
    /\ VerifyIdle
    /\ RaceIdle
    /\ AppendIdle

NextMain ==
    \/ ValidateEnvArg /\ UNCHANGED <<cfgVars, chainVars, keyVars, updVars, fsVars, resolveVars, mergeVars, auditVars, cmdVars, decVars, validateVars, dotenvVars, checkVars, tplVars, verVars, raceVars, appendVars>>
    \/ Dispatch /\ UNCHANGED <<cfgVars, chainVars, keyVars, updVars, fsVars, resolveVars, mergeVars, auditVars, cmdVars, decVars, validateVars, dotenvVars, checkVars, tplVars, verVars, raceVars, appendVars>>
    \/ MainExit /\ UNCHANGED <<cfgVars, chainVars, keyVars, updVars, fsVars, resolveVars, mergeVars, auditVars, cmdVars, decVars, validateVars, dotenvVars, checkVars, tplVars, verVars, raceVars, appendVars>>

SpecMain == InitMain /\ [][NextMain]_vars

\* main runs to its end: no step of it waits for anything.
SpecMainFair == SpecMain /\ WF_vars(NextMain)

InitDotenv ==
    /\ DotenvInit
    /\ environments = <<>>
    /\ ChainIdle
    /\ KeysIdle
    /\ UpdateIdle
    /\ FsIdle
    /\ ResolveIdle
    /\ MergeIdle
    /\ AuditIdle
    /\ CommandIdle
    /\ DecryptIdle
    /\ ValidateIdle
    /\ MainIdle
    /\ CheckIdle
    /\ TemplateIdle
    /\ VerifyIdle
    /\ RaceIdle
    /\ AppendIdle

NextDotenv ==
    \/ DotenvParse /\ UNCHANGED <<cfgVars, chainVars, keyVars, updVars, fsVars, resolveVars, mergeVars, auditVars, cmdVars, decVars, validateVars, mainVars, checkVars, tplVars, verVars, raceVars, appendVars>>
    \/ DotenvSerialize /\ UNCHANGED <<cfgVars, chainVars, keyVars, updVars, fsVars, resolveVars, mergeVars, auditVars, cmdVars, decVars, validateVars, mainVars, checkVars, tplVars, verVars, raceVars, appendVars>>

SpecDotenv == InitDotenv /\ [][NextDotenv]_vars

InitCheck ==
    /\ CheckInit
    /\ environments = <<>>
    /\ ChainIdle
    /\ KeysIdle
    /\ UpdateIdle
    /\ FsIdle
    /\ ResolveIdle
    /\ MergeIdle
    /\ AuditIdle
    /\ CommandIdle
    /\ DecryptIdle
    /\ ValidateIdle
    /\ MainIdle
    /\ DotenvIdle
    /\ TemplateIdle
    /\ VerifyIdle
    /\ RaceIdle
    /\ AppendIdle

NextCheck ==
    \/ Check /\ UNCHANGED <<cfgVars, chainVars, keyVars, updVars, fsVars, resolveVars, mergeVars, auditVars, cmdVars, decVars, validateVars, mainVars, dotenvVars, tplVars, verVars, raceVars, appendVars>>

SpecCheck == InitCheck /\ [][NextCheck]_vars

InitTemplate ==
    /\ TemplateInit
    /\ environments = <<>>
    /\ ChainIdle
    /\ KeysIdle
    /\ UpdateIdle
    /\ FsIdle
    /\ ResolveIdle
    /\ MergeIdle
    /\ AuditIdle
    /\ CommandIdle
    /\ DecryptIdle
    /\ ValidateIdle
    /\ MainIdle
    /\ DotenvIdle
    /\ CheckIdle
    /\ VerifyIdle
    /\ RaceIdle
    /\ AppendIdle

NextTemplate ==
    \/ ResolveGlobal /\ UNCHANGED <<cfgVars, chainVars, keyVars, updVars, fsVars, resolveVars, mergeVars, auditVars, cmdVars, decVars, validateVars, mainVars, dotenvVars, checkVars, verVars, raceVars, appendVars>>

SpecTemplate == InitTemplate /\ [][NextTemplate]_vars

InitVerify ==
    /\ VerifyInit
    /\ environments = <<>>
    /\ ChainIdle
    /\ KeysIdle
    /\ UpdateIdle
    /\ FsIdle
    /\ ResolveIdle
    /\ MergeIdle
    /\ AuditIdle
    /\ CommandIdle
    /\ DecryptIdle
    /\ ValidateIdle
    /\ MainIdle
    /\ DotenvIdle
    /\ CheckIdle
    /\ TemplateIdle
    /\ RaceIdle
    /\ AppendIdle

NextVerify ==
    \/ VerifyDownloaded /\ UNCHANGED <<cfgVars, chainVars, keyVars, updVars, fsVars, resolveVars, mergeVars, auditVars, cmdVars, decVars, validateVars, mainVars, dotenvVars, checkVars, tplVars, raceVars, appendVars>>
    \/ TamperData /\ UNCHANGED <<cfgVars, chainVars, keyVars, updVars, fsVars, resolveVars, mergeVars, auditVars, cmdVars, decVars, validateVars, mainVars, dotenvVars, checkVars, tplVars, raceVars, appendVars>>
    \/ TamperText /\ UNCHANGED <<cfgVars, chainVars, keyVars, updVars, fsVars, resolveVars, mergeVars, auditVars, cmdVars, decVars, validateVars, mainVars, dotenvVars, checkVars, tplVars, raceVars, appendVars>>
    \/ VerifyTampered /\ UNCHANGED <<cfgVars, chainVars, keyVars, updVars, fsVars, resolveVars, mergeVars, auditVars, cmdVars, decVars, validateVars, mainVars, dotenvVars, checkVars, tplVars, raceVars, appendVars>>

SpecVerify == InitVerify /\ [][NextVerify]_vars

InitFreshKeys ==
    /\ FreshKeysInit
    /\ environments = <<>>
    /\ ChainIdle
    /\ UpdateIdle
    /\ FsIdle
    /\ ResolveIdle
    /\ MergeIdle
    /\ AuditIdle
    /\ CommandIdle
    /\ DecryptIdle
    /\ ValidateIdle
    /\ MainIdle
    /\ DotenvIdle
    /\ CheckIdle
    /\ TemplateIdle
    /\ VerifyIdle
    /\ RaceIdle
    /\ AppendIdle

NextFreshKeys ==
    \/ AddAccepted /\ UNCHANGED <<cfgVars, chainVars, updVars, fsVars, resolveVars, mergeVars, auditVars, cmdVars, decVars, validateVars, mainVars, dotenvVars, checkVars, tplVars, verVars, raceVars, appendVars>>
    \/ RemoveAccepted /\ UNCHANGED <<cfgVars, chainVars, updVars, fsVars, resolveVars, mergeVars, auditVars, cmdVars, decVars, validateVars, mainVars, dotenvVars, checkVars, tplVars, verVars, raceVars, appendVars>>

SpecFreshKeys == InitFreshKeys /\ [][NextFreshKeys]_vars

InitRace ==
    /\ RaceInit
    /\ environments = <<>>
    /\ ChainIdle
    /\ KeysIdle
    /\ UpdateIdle
    /\ FsIdle
    /\ ResolveIdle
    /\ MergeIdle
    /\ AuditIdle
    /\ CommandIdle
    /\ DecryptIdle
    /\ ValidateIdle
    /\ MainIdle
    /\ DotenvIdle
    /\ CheckIdle
    /\ TemplateIdle
    /\ VerifyIdle
    /\ AppendIdle

NextRace ==
    \/ ConcurrentReadList /\ UNCHANGED <<cfgVars, chainVars, keyVars, updVars, fsVars, resolveVars, mergeVars, auditVars, cmdVars, decVars, validateVars, mainVars, dotenvVars, checkVars, tplVars, verVars, appendVars>>
    \/ ConcurrentTruncate /\ UNCHANGED <<cfgVars, chainVars, keyVars, updVars, fsVars, resolveVars, mergeVars, auditVars, cmdVars, decVars, validateVars, mainVars, dotenvVars, checkVars, tplVars, verVars, appendVars>>
    \/ ConcurrentWriteAll /\ UNCHANGED <<cfgVars, chainVars, keyVars, updVars, fsVars, resolveVars, mergeVars, auditVars, cmdVars, decVars, validateVars, mainVars, dotenvVars, checkVars, tplVars, verVars, appendVars>>

SpecRace == InitRace /\ [][NextRace]_vars

InitAppend ==
    /\ AppendInit
    /\ environments = <<>>
    /\ ChainIdle
    /\ KeysIdle
    /\ UpdateIdle
    /\ FsIdle
    /\ ResolveIdle
    /\ MergeIdle
    /\ AuditIdle
    /\ CommandIdle
    /\ DecryptIdle
    /\ ValidateIdle
    /\ MainIdle
    /\ DotenvIdle
    /\ CheckIdle
    /\ TemplateIdle
    /\ VerifyIdle
    /\ RaceIdle

NextAppend ==
    \/ ConcurrentOpen /\ UNCHANGED <<cfgVars, chainVars, keyVars, updVars, fsVars, resolveVars, mergeVars, auditVars, cmdVars, decVars, validateVars, mainVars, dotenvVars, checkVars, tplVars, verVars, raceVars>>
    \/ ConcurrentOpenFails /\ UNCHANGED <<cfgVars, chainVars, keyVars, updVars, fsVars, resolveVars, mergeVars, auditVars, cmdVars, decVars, validateVars, mainVars, dotenvVars, checkVars, tplVars, verVars, raceVars>>
    \/ ConcurrentWriteWhole /\ UNCHANGED <<cfgVars, chainVars, keyVars, updVars, fsVars, resolveVars, mergeVars, auditVars, cmdVars, decVars, validateVars, mainVars, dotenvVars, checkVars, tplVars, verVars, raceVars>>
    \/ ConcurrentWriteEntry /\ UNCHANGED <<cfgVars, chainVars, keyVars, updVars, fsVars, resolveVars, mergeVars, auditVars, cmdVars, decVars, validateVars, mainVars, dotenvVars, checkVars, tplVars, verVars, raceVars>>
    \/ ConcurrentWriteLineFeed /\ UNCHANGED <<cfgVars, chainVars, keyVars, updVars, fsVars, resolveVars, mergeVars, auditVars, cmdVars, decVars, validateVars, mainVars, dotenvVars, checkVars, tplVars, verVars, raceVars>>
    \/ QueryShared /\ UNCHANGED <<cfgVars, chainVars, keyVars, updVars, fsVars, resolveVars, mergeVars, auditVars, cmdVars, decVars, validateVars, mainVars, dotenvVars, checkVars, tplVars, verVars, raceVars>>

SpecAppend == InitAppend /\ [][NextAppend]_vars

(***************************************************************************)
(* Claims about build_chain.                                               *)
(***************************************************************************)
NoDuplicates(s) == \A i, j \in DOMAIN s : i # j => s[i] # s[j]

\* The inherits walk from n meets a name it has already visited.
RECURSIVE WalkRevisits(_, _)
WalkRevisits(n, seen) ==
    IF n \in seen THEN TRUE
    ELSE IF n \notin DOMAIN environments THEN FALSE
    ELSE IF ~IsSome(environments[n].inherits) THEN FALSE
    ELSE WalkRevisits(Unwrap(environments[n].inherits), seen \cup {n})

\* C8: for every config (cycles, self-loops and dangling inherits links
\* included) and every requested name, build_chain terminates: the walk
\* eventually returns a chain or an error.
BuildChainTerminates == <>(IsOk(bcResult) \/ IsErr(bcResult))

\* C8 witness: the walk went round a cycle of two or more environments and
\* returned.
BuildChainReturnedOnCycle ==
    /\ IsErrOf(bcResult, "CircularInheritance")
    /\ Len(chain) >= 3

\* C9: a returned chain starts at an environment without inherits, ends at
\* the requested name, has no duplicates, and every later element inherits
\* from the element just before it (root-to-leaf order).
ChainIsRootToLeaf ==
    IsOk(bcResult) =>
        LET c == bcResult.value IN
        /\ Len(c) >= 1
        /\ c[1] \in DOMAIN environments
        /\ environments[c[1]].inherits = None
        /\ c[Len(c)] = name
        /\ NoDuplicates(c)
        /\ \A i \in 2..Len(c) :
              /\ c[i] \in DOMAIN environments
              /\ environments[c[i]].inherits = Some(c[i - 1])

\* C9 witness: a chain of three layers was returned.
ChainOfThreeReturned == IsOk(bcResult) /\ Len(bcResult.value) = 3

\* Sequences of names that start and end with the same name.
ClosedPaths ==
    {p \in UNION {[1..n -> EnvNames \cup {Undefined}] : n \in 2..(MaxEnvs + 1)} :
        p[1] = p[Len(p)]}

\* C10: whenever the walk from the requested name revisits an environment,
\* build_chain fails with CircularInheritance and the payload is a cycle
\* rendered "a -> b -> ... -> a", starting and ending with the same name,
\* whether the requested name is on the cycle or only leads into it.
CyclePayloadIsTheCycle ==
    (bcResult # Pending /\ WalkRevisits(name, {})) =>
        /\ IsErrOf(bcResult, "CircularInheritance")
        /\ \E p \in ClosedPaths : bcResult.payload = Join(p, " -> ")

(***************************************************************************)
(* Claims about the key store.                                             *)
(***************************************************************************)
Occurrences(identities, public_key) ==
    Cardinality({i \in DOMAIN identities : identities[i].public_key = public_key})

\* C5: after add(k) returns success, list() holds exactly one entry whose
\* public_key equals k.public_key, for every key string add accepts; stated
\* here for the keys that also pass the CLI's validate_recipient_key.
AddedKeyListedOnce ==
    (/\ lastCall.op = "add"
     /\ IsOk(lastCall.result)
     /\ validate_recipient_key(lastCall.arg.public_key)) =>
        Occurrences(list(recipientsFile), lastCall.arg.public_key) = 1

\* C6: an add(k) on a store whose list() already has k.public_key, or that
\* repeats the successful add(k) just made, fails with KeyAlreadyExists and
\* leaves the recipients file as it was.
AddDuplicateFails ==
    [][lastCall'.op = "add" =>
         LET k == lastCall'.arg IN
         (\/ HasKey(list(recipientsFile), k.public_key)
          \/ (lastCall.op = "add" /\ IsOk(lastCall.result) /\ lastCall.arg = k))
         => /\ IsErrOf(lastCall'.result, "KeyAlreadyExists")
            /\ recipientsFile' = recipientsFile]_vars

\* C7: remove(pk) on a store without pk fails with KeyNotFound and changes
\* nothing; on a store with pk it succeeds and list() is then the previous
\* list() less exactly the entries whose public_key equals pk, the others
\* keeping their order and labels.
RemoveDeletesExactlyTheKey ==
    lastCall.op = "remove" =>
        IF \A i \in DOMAIN lastCall.before : lastCall.before[i].public_key # lastCall.arg
        THEN /\ IsErrOf(lastCall.result, "KeyNotFound")
             /\ recipientsFile = lastCall.fileBefore
        ELSE /\ IsOk(lastCall.result)
             /\ list(recipientsFile) =
                  SelectSeq(lastCall.before, LAMBDA ki : ki.public_key # lastCall.arg)

\* C7 witness: a remove succeeded on a store that also held a longer key
\* starting with pk, which is still listed.
RemovedKeyWithLongerSibling ==
    /\ lastCall.op = "remove"
    /\ IsOk(lastCall.result)
    /\ \E i \in DOMAIN list(recipientsFile) :
          LET ki == list(recipientsFile)[i] IN
          /\ StartsWith(ki.public_key, lastCall.arg)
          /\ ki.public_key # lastCall.arg

(***************************************************************************)
(* Claims about `vaultic update`.                                          *)
(***************************************************************************)
Last(s) == s[Len(s)]

\* The positions of events at which step ran with outcome.
EventsAt(step, outcome) == {i \in 1..Len(events) : events[i] = <<step, outcome>>}
Ran(step) == EventsAt(step, "ok") \cup EventsAt(step, "failed")

\* C3: the signature over the checksums manifest is verified before the
\* binary's SHA-256 is checked against it, the hash check runs only after the
\* signature check succeeded, and the binary is replaced only after both
\* succeeded, in that order.
SignatureThenHashThenReplace ==
    /\ \A h \in Ran("verify_sha256") :
         \E g \in EventsAt("verify_signature", "ok") : g < h
    /\ \A r \in Ran("self_replace") :
         \E g \in EventsAt("verify_signature", "ok"), h \in EventsAt("verify_sha256", "ok") :
            g < h /\ h < r
    /\ installedBinary # OldBinary => Ran("self_replace") # {}

\* C3 witness: an update that ran to the end and replaced the binary.
UpdateInstalled ==
    /\ updPhase = "done"
    /\ installedBinary = "release-binary"
    /\ events = << <<"verify_signature", "ok">>, <<"verify_sha256", "ok">>,
                   <<"self_replace", "ok">> >>

\* The steps C4 lists.
VerificationSteps ==
    {"fetch_update_info", "download_bytes(asset_url)", "download_bytes(checksums_url)",
     "download_bytes(signature_url)", "verify_signature", "verify_sha256"}

PastSignatureStep ==
    updPhase \in {"verifying-hash", "installing", "replacing", "done", "failed"}
    /\ IsSome(signature_data)

PastHashStep ==
    updPhase \in {"installing", "replacing", "done", "failed"}
    /\ IsSome(signature_data)
    /\ IsOk(verify_signature(Unwrap(checksums_data), Unwrap(signature_data)))

\* C4: a failure of the release lookup, of a download, of the signature check
\* or of the hash check ends the command with that error and the installed
\* binary untouched; a manifest whose signature does not verify stops the
\* command at the signature step whether or not the binary's hash matches.
FailureLeavesBinaryInPlace ==
    /\ updPhase = "failed" => IsErr(updResult)
    /\ (updPhase = "failed" /\ Last(events)[1] \in VerificationSteps) =>
          installedBinary = OldBinary
    /\ (PastSignatureStep
        /\ IsErr(verify_signature(Unwrap(checksums_data), Unwrap(signature_data)))) =>
          /\ updPhase = "failed"
          /\ updResult = verify_signature(Unwrap(checksums_data), Unwrap(signature_data))
          /\ events = << <<"verify_signature", "failed">> >>
          /\ installedBinary = OldBinary
    /\ (PastHashStep
        /\ IsErr(verify_sha256(Unwrap(binary_data), Unwrap(info).asset_name,
                               Unwrap(checksums_data)))) =>
          /\ updPhase = "failed"
          /\ updResult = verify_sha256(Unwrap(binary_data), Unwrap(info).asset_name,
                                       Unwrap(checksums_data))
          /\ Last(events) = <<"verify_sha256", "failed">>
          /\ installedBinary = OldBinary

\* C4 witness: the binary's hash matches the manifest, the manifest's
\* signature was made by another key, and the command stopped at the
\* signature step.
MatchingHashBadSignatureAborted ==
    /\ updPhase = "failed"
    /\ keyDecodes
    /\ IsSome(signature_data)
    /\ Unwrap(signature_data).decodes
    /\ Unwrap(signature_data).by = "other-key"
    /\ IsOk(verify_sha256(Unwrap(binary_data), Unwrap(info).asset_name,
                          Unwrap(checksums_data)))
    /\ Last(events) = <<"verify_signature", "failed">>

(***************************************************************************)
(* Claims about plaintext on disk.                                         *)
(***************************************************************************)
\* C1: during `encrypt --all` the only file writes are ciphertext writes to
\* the .enc path of the environment being processed, and no file written by
\* the run holds decrypted plaintext at any point, also when the run fails
\* part-way through the environments.
EncryptAllWritesOnlyCiphertext ==
    cmd = "encrypt_all" =>
        \A i \in DOMAIN writes :
            /\ writes[i].data.kind = "cipher"
            /\ writes[i].path = EncPath(writes[i].env)
            /\ ~HoldsDecrypted(disk[writes[i].path])

\* C1, amended: during `encrypt --all` every file write is a ciphertext write
\* to the .enc path of the environment being processed or the append of that
\* environment's entry to the audit log; no write is a plaintext write and no
\* file written by the run holds decrypted plaintext at any point, also when
\* the run fails part-way through the environments.
EncryptAllWritesNoPlaintext ==
    cmd = "encrypt_all" =>
        \A i \in DOMAIN writes :
            /\ \/ /\ writes[i].data.kind = "cipher"
                  /\ writes[i].path = EncPath(writes[i].env)
               \/ /\ writes[i].data.kind = "log"
                  /\ writes[i].path = AuditLogPath
                  /\ i > 1
                  /\ writes[i - 1].data.kind = "cipher"
                  /\ writes[i - 1].env = writes[i].env
            /\ ~HoldsDecrypted(disk[writes[i].path])

\* C1 witness: a run that re-encrypted one environment, logged it, and then
\* failed on the next one.
EncryptAllFailedPartWay ==
    /\ cmd = "encrypt_all"
    /\ pc = "done"
    /\ IsErr(fsResult)
    /\ Len(writes) = 2
    /\ writes[1].data.kind = "cipher"
    /\ writes[2].data.kind = "log"

RECURSIVE WalkMissing(_, _)
WalkMissing(n, seen) ==
    IF n \in seen THEN None
    ELSE IF n \notin DOMAIN environments THEN Some(n)
    ELSE IF ~IsSome(environments[n].inherits) THEN None
    ELSE WalkMissing(Unwrap(environments[n].inherits), seen \cup {n})

\* The error names the missing environment.
NamesMissing(r) ==
    /\ IsErrOf(r, "EnvironmentNotFound")
    /\ r.payload.name = Unwrap(WalkMissing(name, {}))

\* C11: when the requested name, or a name reached through inherits links
\* before a cycle is detected, is not a key of config.environments,
\* build_chain and resolve fail with EnvironmentNotFound, and the error names
\* the missing environment and lists the environments the config defines.
MissingEnvironmentReported ==
    (rsResult # Pending /\ IsSome(WalkMissing(name, {}))) =>
        \A r \in {bcResult, rsResult} :
            /\ NamesMissing(r)
            /\ "available" \in DOMAIN r.payload
            /\ r.payload.available = DOMAIN environments

\* The keys of the entries of a file, and its (key, value) pairs.
KeysOf(lines) == {lines[i].key : i \in {j \in DOMAIN lines : lines[j].kind = "entry"}}
EntryPairs(lines) ==
    {<<lines[i].key, lines[i].value>> : i \in {j \in DOMAIN lines : lines[j].kind = "entry"}}

\* C12: merge is right-biased: for any files b and o, keys that occur more
\* than once included, and any key k with an entry in both,
\* merge(b, o).get(k) = o.get(k).
MergeIsRightBiased ==
    IsOk(mergeResult) =>
        \A k \in KeysOf(mergeBase) \cap KeysOf(mergeOverlay) :
            get(mergeResult.value, k) = get(mergeOverlay, k)

\* C13: the (key, value) pairs of the entries of merge(x, x) are those of x.
MergeWithItselfKeepsEntries ==
    (IsOk(mergeResult) /\ mergeBase = mergeOverlay) =>
        EntryPairs(mergeResult.value) = EntryPairs(mergeBase)

\* C13 witness: a file in which a key occurs twice with two values was
\* merged with itself.
MergedWithItselfTwoValues ==
    /\ IsOk(mergeResult)
    /\ mergeBase = mergeOverlay
    /\ mergeBase = <<Entry("K", "1"), Entry("K", "2")>>

\* The layers of a chain that have a file with an entry for the key.
DefiningLayers(ch, files, key) ==
    {i \in DOMAIN ch : ch[i] \in DOMAIN files /\ key \in KeysOf(files[ch[i]])}

\* The value the key has in the defining layer closest to the leaf.
ClosestValue(ch, files, key) ==
    LET defs == DefiningLayers(ch, files, key)
        i == CHOOSE j \in defs : \A m \in defs : m <= j
    IN get(files[ch[i]], key)

\* C14: when build_chain returns a chain, resolve returns an Environment
\* whose layers are that chain and in which every key with an entry in some
\* layer file has the value of the layer closest to the leaf that defines
\* it; layers without a file are treated as empty and cause no error.
ResolveTakesClosestLayer ==
    (rsResult # Pending /\ IsOk(bcResult)) =>
        /\ IsOk(rsResult)
        /\ rsResult.value.layers = bcResult.value
        /\ \A k \in {"K", "L", "M"} :
              DefiningLayers(bcResult.value, layerFiles, k) # {} =>
                  get(rsResult.value.resolved, k)
                      = ClosestValue(bcResult.value, layerFiles, k)

(***************************************************************************)
(* Claims about JsonAuditLogger.                                           *)
(***************************************************************************)
BytesOf(file) == IF IsSome(file) THEN Unwrap(file) ELSE <<>>

IsBlankLine(text) == \A i \in DOMAIN text : text[i] = Sp

\* A line that holds, between spaces, the text of exactly one entry.
IsEntryLine(text) == \E e \in AuditRecords : TrimLine(text) = to_string(e)

EntryOfLine(text) == CHOOSE e \in AuditRecords : TrimLine(text) = to_string(e)

\* The numbers of the lines that are neither blank nor an entry.
MalformedLines(file) ==
    LET ls == ReaderLines(BytesOf(file)) IN
    {i \in DOMAIN ls : ~IsBlankLine(ls[i]) /\ ~IsEntryLine(ls[i])}

\* Every line of the file is blank or an entry.
WellFormed(file) == MalformedLines(file) = {}

\* The entries of a well-formed file, in file order.
EntriesOf(file) ==
    LET ls == ReaderLines(BytesOf(file))
        kept == SelectSeq(ls, LAMBDA l : ~IsBlankLine(l))
    IN [i \in DOMAIN kept |-> EntryOfLine(kept[i])]

RECURSIVE Serialized(_)
Serialized(es) ==
    IF es = <<>> THEN <<>> ELSE to_string(Head(es)) \o <<Nl>> \o Serialized(Tail(es))

\* The file is empty or absent, or its last byte is a line feed.
EndsWithLineFeed(file) ==
    BytesOf(file) = <<>> \/ BytesOf(file)[Len(BytesOf(file))] = Nl

QueryAll == auditCall.op = "query" /\ auditCall.args = <<None, None>>

\* C15 as stated: from an absent or a well-formed log, after the
\* successful log_event calls a query(None, None) returns the prior entries
\* followed by the logged ones in order, and log_event leaves the earlier
\* bytes of the file as they were.
LogIsAppendOnly ==
    /\ logged # <<>> => logFile = Some(BytesOf(priorLog) \o Serialized(logged))
    /\ (QueryAll /\ WellFormed(priorLog)) =>
           auditCall.result = Ok(EntriesOf(priorLog) \o logged)

\* C15 amended: the same, from an absent log or a well-formed log that is
\* empty or ends with a line feed.
LogIsAppendOnlyAfterLineFeed ==
    /\ logged # <<>> => logFile = Some(BytesOf(priorLog) \o Serialized(logged))
    /\ (QueryAll /\ WellFormed(priorLog) /\ EndsWithLineFeed(priorLog)) =>
           auditCall.result = Ok(EntriesOf(priorLog) \o logged)

\* C15 witness: two entries were logged after a log of two entries and
\* blank lines, and query(None, None) returned four entries.
QueriedAfterTwoEvents ==
    /\ QueryAll
    /\ Len(logged) = 2
    /\ WellFormed(priorLog)
    /\ Len(EntriesOf(priorLog)) = 2
    /\ IsOk(auditCall.result)
    /\ Len(auditCall.result.value) = 4

\* C16: when a line of the log is neither blank nor an entry, query fails
\* with an AuditError that gives the 1-based number of the first such line
\* and returns no entries, whatever the filters.
MalformedLineFailsQuery ==
    (auditCall.op = "query" /\ ~WellFormed(logFile)) =>
        /\ IsErrOf(auditCall.result, "AuditError")
        /\ auditCall.result.payload.line \in MalformedLines(logFile)
        /\ \A i \in MalformedLines(logFile) : auditCall.result.payload.line <= i

\* C16 witness: a query with both filters on a log whose third line is
\* truncated, after entries the filters reject, failed on line 3.
FilteredQueryFailedOnLine ==
    /\ auditCall.op = "query"
    /\ IsSome(auditCall.args[1])
    /\ IsSome(auditCall.args[2])
    /\ MalformedLines(logFile) = {3}
    /\ auditCall.result = Err("AuditError", [line |-> 3])

\* The filter as a predicate on an entry.
Selected(e, author, since) ==
    /\ \/ ~IsSome(author)
       \/ ContainsStr(to_lowercase(e.author), to_lowercase(Unwrap(author)))
       \/ /\ IsSome(e.email)
          /\ ContainsStr(to_lowercase(Unwrap(e.email)), to_lowercase(Unwrap(author)))
    /\ \/ ~IsSome(since)
       \/ e.timestamp >= Unwrap(since)

\* C19: on a well-formed log query(author, since) returns, in log order,
\* exactly the entries whose lower-cased author or email contains the
\* lower-cased filter (or no author filter) and whose timestamp is at least
\* since (or no since filter).
QueryReturnsTheSelected ==
    (auditCall.op = "query" /\ WellFormed(logFile)) =>
        auditCall.result =
            Ok(SelectSeq(EntriesOf(logFile),
                         LAMBDA e : Selected(e, auditCall.args[1], auditCall.args[2])))

\* C19 witness: an upper-case author filter and since = 2 on a log of three
\* entries returned one entry, whose timestamp is 2.
UpperCaseFilterKeptOne ==
    /\ auditCall.op = "query"
    /\ auditCall.args = <<Some(<<"A", "L">>), Some(2)>>
    /\ WellFormed(logFile)
    /\ Len(EntriesOf(logFile)) = 3
    /\ IsOk(auditCall.result)
    /\ Len(auditCall.result.value) = 1
    /\ auditCall.result.value[1].timestamp = 2

(***************************************************************************)
(* Claims about the commands' audit calls.                                 *)
(***************************************************************************)
\* The commands that hand an entry to log_audit.
Audited ==
    {"encrypt", "encrypt --all", "decrypt", "keys add", "keys remove", "check",
     "hook install", "hook uninstall"}

EncFiles == {EnvEncPath("dev"), EnvEncPath("prod")}

\* What a command that did not fail has written when it returns.
Effect ==
    CASE invoked = "encrypt" -> {EnvEncPath("dev")}
      [] invoked = "encrypt --all" -> {EnvEncPath(targets[i]) : i \in DOMAIN targets}
      [] invoked = "decrypt" -> {DotEnv}
      [] invoked \in {"keys add", "keys remove"} -> {RecipientsTxt}
      [] invoked \in {"hook install", "hook uninstall"} -> {"pre-commit"}
      [] OTHER -> {}

\* C17: for every command that records an audit event, what the command
\* returns and what it has written do not depend on whether the audit entry
\* could be written; a failed write only emits a warning.
AuditFailureChangesNothing ==
    (stage = "returned" /\ invoked \in Audited) =>
        /\ IsOk(exitResult) <=> ~workFailed
        /\ IsErr(exitResult) => exitResult.kind # "AuditError"
        /\ ~workFailed => changed = Effect
        /\ (~workFailed /\ enabled /\ ~writable) =>
               /\ auditLines = <<>>
               /\ warnings = IF invoked = "encrypt --all" THEN Len(targets) ELSE 1

\* C17 witness: encrypt --all rewrote two environments and returned Ok
\* although neither audit entry could be written.
EncryptAllDespiteAuditFailure ==
    /\ stage = "returned"
    /\ invoked = "encrypt --all"
    /\ enabled
    /\ ~writable
    /\ IsOk(exitResult)
    /\ changed = EncFiles
    /\ warnings = 2

\* C18: with auditing enabled and the log writable, a command that returned
\* Ok and wrote the recipients file or an encrypted environment file has
\* appended an audit entry, and one for every encrypted file it wrote.
StateChangesAreAudited ==
    (stage = "returned" /\ IsOk(exitResult) /\ enabled /\ writable) =>
        /\ changed \cap ({RecipientsTxt} \cup EncFiles) # {} => auditLines # <<>>
        /\ \A f \in changed \cap EncFiles :
              \E i \in DOMAIN auditLines : f \in Range(auditLines[i].files)

(***************************************************************************)
(* Claims about CipherBackend::decrypt.                                    *)
(***************************************************************************)
\* C20: for the age and the gpg backend, with the backend's keys loaded,
\* decrypt of a whole message of the backend's format that none of the
\* owned identities opens fails with DecryptionNoKey, and decrypt of bytes
\* the backend cannot parse as a message fails with an error of another
\* kind.
NoKeyIsDistinctFromMalformed ==
    (decResult # Pending /\ decKeys.state = "ok") =>
        /\ ( /\ HeaderParses(decBackend, decInput)
             /\ decInput.damage = "none"
             /\ decKeys.identities \cap decInput.recipients = {} )
               => IsErrOf(decResult, "DecryptionNoKey")
        /\ ~HeaderParses(decBackend, decInput)
               => (IsErr(decResult) /\ decResult.kind # "DecryptionNoKey")

(***************************************************************************)
(* Claims about the path validators.                                       *)
(***************************************************************************)
\* The string has "..", "/" or "\" in it.
HasPathPart(s) ==
    \/ \E i \in DOMAIN s : s[i] = "/" \/ s[i] = "\\"
    \/ \E i \in 1..(Len(s) - 1) : s[i] = "." /\ s[i + 1] = "."

\* C21: neither validator accepts a string with "..", "/" or "\" in it;
\* validate_env_name accepts exactly the non-empty strings of letters,
\* digits, "_" and "-"; validate_simple_filename accepts neither the empty
\* string nor a string that starts with ".".
ValidatorsRejectPaths ==
    /\ vnResult # Pending =>
          /\ IsOk(vnResult) <=>
                /\ Len(vnInput) > 0
                /\ \A i \in DOMAIN vnInput : vnInput[i] \in {"a", "Z", "0", "_", "-"}
          /\ IsOk(vnResult) => ~HasPathPart(vnInput)
    /\ (vfResult # Pending /\ IsOk(vfResult)) =>
          /\ ~HasPathPart(vnInput)
          /\ Len(vnInput) > 0
          /\ vnInput[1] # "."

\* C21 witness: a name with a dot in the middle was refused as an
\* environment name and accepted as a file name.
DottedNameOnlyAFilename ==
    /\ vnInput = <<"a", ".", "Z">>
    /\ IsErrOf(vnResult, "InvalidConfig")
    /\ IsOk(vfResult)

(***************************************************************************)
(* Claims about main.                                                      *)
(***************************************************************************)
SomeEnvArgInvalid ==
    \E i \in DOMAIN argv.env :
        \/ argv.env[i] = <<>>
        \/ \E j \in DOMAIN argv.env[i] : argv.env[i][j] \notin {"a", "Z", "0", "_", "-"}

\* C22: when a --env value fails validate_env_name no command is ever
\* dispatched, no path is built from a --env value, and the process exits
\* with status 1.
InvalidEnvExitsBeforeDispatch ==
    /\ [](SomeEnvArgInvalid => (mainStage # "dispatched" /\ builtFrom = {}))
    /\ [](SomeEnvArgInvalid => <>(mainStage = "exited" /\ exitCode = Some(1)))

\* C22 witness: diff with a valid first and an invalid second --env value
\* exited with status 1 after validating both.
SecondEnvArgRefused ==
    /\ argv.command = "diff"
    /\ argv.env = <<<<"a">>, <<".", ".", "/", "a">>>>
    /\ envIndex = 2
    /\ mainStage = "exited"
    /\ exitCode = Some(1)
    /\ builtFrom = {}

(***************************************************************************)
(* Claims about DotenvParser.                                              *)
(***************************************************************************)
\* A line that is blank, a comment, or KEY=V with optional whitespace
\* around the key and the value and no quotes around the value.
IsDotenvLine(l) ==
    LET t == Trim(l)
        eq == IndexOf(t, "=")
        v == Trim(SubSeq(t, eq + 1, Len(t)))
    IN \/ t = <<>>
       \/ Head(t) = "#"
       \/ /\ eq > 1
          /\ Trim(SubSeq(t, 1, eq - 1)) # <<>>
          /\ ~(Len(v) >= 2 /\ v[1] = "\"" /\ v[Len(v)] = "\"")
          /\ ~(Len(v) >= 2 /\ v[1] = "'" /\ v[Len(v)] = "'")

\* C23: for a content each of whose lines is blank, a comment or such a
\* KEY=V line, parse succeeds and serialize gives the content back byte for
\* byte.
DotenvRoundTrip ==
    (dotenvOut # Pending /\ \A i \in DOMAIN Split(dotenvText, "\n") :
                                IsDotenvLine(Split(dotenvText, "\n")[i])) =>
        dotenvOut = Ok(dotenvText)

(***************************************************************************)
(* Claims about CheckService::check.                                       *)
(***************************************************************************)
\* The local keys that have an entry with the empty value.
EmptyKeys(lines) ==
    {lines[i].key : i \in {j \in DOMAIN lines :
                              lines[j].kind = "entry" /\ lines[j].value = ""}}

\* The position of a key in the lexicographic order.
Rank(k) == CHOOSE i \in DOMAIN CheckKeys : CheckKeys[i] = k

IsSorted(ks) == \A i, j \in DOMAIN ks : i < j => Rank(ks[i]) <= Rank(ks[j])

\* C24: missing is the template keys not in local, extra the local keys
\* not in template, empty_values the local keys whose value is empty, each
\* in lexicographic order; is_ok holds iff the three lists are empty.
CheckListsAreSorted ==
    IsOk(checkResult) =>
        /\ checkResult.value.missing = InOrder(KeySet(checkTemplate) \ KeySet(checkLocal))
        /\ checkResult.value.extra = InOrder(KeySet(checkLocal) \ KeySet(checkTemplate))
        /\ Range(checkResult.value.empty_values) = EmptyKeys(checkLocal)
        /\ IsSorted(checkResult.value.empty_values)
        /\ is_ok(checkResult.value) <=>
               /\ KeySet(checkTemplate) = KeySet(checkLocal)
               /\ EmptyKeys(checkLocal) = {}

(***************************************************************************)
(* Claims about TemplateResolver.                                          *)
(***************************************************************************)
\* The paths resolve_global probes, in priority order.
Probed == (IF IsSome(tplConfig) THEN <<Unwrap(tplConfig)>> ELSE <<>>) \o TEMPLATE_CANDIDATES

\* C25: resolve_global returns the first existing path of the configured
\* template followed by the auto-discovery candidates; when none exists it
\* fails with TemplateNotFound whose searched lists every path probed, the
\* configured one included.
TemplateNotFoundListsAllProbed ==
    tplResult # Pending =>
        LET hits == {i \in DOMAIN Probed : Probed[i] \in tplExisting} IN
        IF hits # {}
        THEN tplResult = Ok(Probed[CHOOSE i \in hits : \A j \in hits : i <= j])
        ELSE /\ IsErrOf(tplResult, "TemplateNotFound")
             /\ \A i \in DOMAIN Probed : Probed[i] \in Range(tplResult.payload.searched)

(***************************************************************************)
(* Claims about verify_sha256.                                             *)
(***************************************************************************)
\* The offsets in text at which a line `<hex>  <asset>` starts.
AssetLineStarts(text, hex, asset) ==
    LET pattern == hex \o <<" ", " ">> \o asset IN
    {o \in 0..Len(text) :
        /\ o = 0 \/ text[o] = "\n"
        /\ o + Len(pattern) <= Len(text)
        /\ SubSeq(text, o + 1, o + Len(pattern)) = pattern
        /\ o + Len(pattern) = Len(text) \/ text[o + Len(pattern) + 1] = "\n"}

\* Some line of text names the asset: it ends with two spaces and the name.
AssetIsNamed(text, asset) ==
    \E h \in {<<"a", "1">>, <<"b", "2">>} : AssetLineStarts(text, h, asset) # {}

\* The first verification is right about the download it was given.
FirstVerificationIsRight ==
    verFirst \notin {Pending, Idle} =>
        /\ IsOk(verFirst) => AssetLineStarts(verText, sha256_hex(verData), PlatformAsset) # {}
        /\ IsErr(verFirst) =>
             /\ IsErrOf(verFirst, "UpdateVerificationFailed")
             /\ verFirst.payload =
                    IF AssetIsNamed(verText, PlatformAsset)
                    THEN "SHA256 mismatch" ELSE "Asset not found"

HashPositions(text, hex, asset) ==
    {q \in DOMAIN text :
        \E o \in AssetLineStarts(text, hex, asset) : q \in (o + 1)..(o + Len(hex))}

\* The text that verified, before a byte of it was changed.
VerifiedText ==
    IF verTamper.what = "txt" THEN [verText EXCEPT ![verTamper.at] = verTamper.was]
    ELSE verText

PublicKeyIsUnique ==
    \A k \in {list(recipientsFile)[i].public_key : i \in DOMAIN list(recipientsFile)} :
        Occurrences(list(recipientsFile), k) = 1

(***************************************************************************)
(* Claims about concurrent adds.                                           *)
(***************************************************************************)
BothAddsSucceeded ==
    /\ addPc # <<>>
    /\ \A proc \in Processes : addPc[proc] = "done" /\ IsOk(addResult[proc])

Listed(proc) == HasKey(list(storeFile), addKey[proc].public_key)

\* C28 as stated: when two processes add distinct keys concurrently and both
\* adds return success, list() afterwards holds both keys, whatever the
\* interleaving of their steps.
ConcurrentAddsBothListed ==
    BothAddsSucceeded => \A proc \in Processes : Listed(proc)

\* C28, amended: both keys are listed when the two adds did not overlap; in
\* every interleaving the key of the process that wrote last is listed.
SequentialAddsBothListed ==
    BothAddsSucceeded =>
        /\ ~overlapped => \A proc \in Processes : Listed(proc)
        /\ Listed(lastWriter)

\* Two adds ran one after the other on a store that already held a key, and
\* both new keys are listed.
TwoAddsInTurn ==
    /\ BothAddsSucceeded
    /\ ~overlapped
    /\ Len(list(storeFile)) = 3
    /\ \A proc \in Processes : Listed(proc)

(***************************************************************************)
(* Claims about concurrent log_event calls.                                *)
(***************************************************************************)
BothEventsLogged ==
    /\ logPc # <<>>
    /\ \A proc \in Processes : logPc[proc] = "done" /\ IsOk(logResult[proc])

\* C29: when two processes log concurrently and both calls return success,
\* the log holds the earlier bytes followed by the two entries as two lines
\* of their own, in one order or the other, and query(None, None) succeeds
\* and returns both entries.
ConcurrentEventsAreSeparateLines ==
    BothEventsLogged =>
        \E proc \in Processes :
            /\ sharedLog = Some(BytesOf(logPrior)
                                \o to_string(logEntryOf[proc]) \o <<Nl>>
                                \o to_string(logEntryOf[Other(proc)]) \o <<Nl>>)
            /\ logQuery # Idle =>
                 logQuery = Ok(EntriesOf(logPrior)
                               \o <<logEntryOf[proc], logEntryOf[Other(proc)]>>)

(***************************************************************************)
(* Claims about the files of `encrypt --all`.                              *)
(***************************************************************************)
IsEnvEncPath(path) == \E e \in DOMAIN environments : path = EnvEncPath(e)

\* C30: every file `encrypt --all` reads or rewrites is the <e>.env.enc of
\* an environment e of the config, the path `encrypt --env e` writes and
\* resolve reads, and a run that succeeds has re-encrypted every environment
\* whose <e>.env.enc exists.
EncryptAllTouchesEnvEncFiles ==
    cmd = "encrypt_all" =>
        /\ pc \in {"encrypt", "audit"} => IsEnvEncPath(EncPath(Head(pending)))
        /\ \A i \in DOMAIN writes :
              writes[i].data.kind = "cipher" => writes[i].path = EnvEncPath(writes[i].env)
        /\ (pc = "done" /\ IsOk(fsResult)) =>
              \A e \in DOMAIN environments :
                  EnvEncPath(e) \in DOMAIN disk =>
                      \E i \in DOMAIN writes :
                          writes[i].path = EnvEncPath(e) /\ writes[i].data.kind = "cipher"

================================================================================
